---- MODULE Spec2Model ----
(***************************************************************************)
(* A model of the mm2 proof assistant: separator trie, token stream, Pratt *)
(* parser, logical kernel (types, terms, rules, proofs), tactic engine,    *)
(* elaborator and command driver.                                          *)
(*                                                                         *)
(* Values are modelled as the TypeScript code builds them: every tagged    *)
(* union is a record with a `kind` field, an immutable Map is a function,  *)
(* an array is a sequence (so index i of the code is index i+1 here), a    *)
(* string is a string.  A thrown exception is the value Throw(..) which    *)
(* every caller propagates.                                                *)
(***************************************************************************)
EXTENDS Integers, Sequences, FiniteSets, TLC

VARIABLES
    state,   \* CoreState threaded by the driver (index.tsx `state`, elab.ts `cs`)
    st,      \* the driver's TokenStream: [text, index]
    out,     \* what the driver's computation returned, "" while it runs
    pc,      \* position of the running process
    ts,      \* TacticState of the `prove` command being elaborated
    cmd,     \* the `prove` command being elaborated: [name, r, root]
    last     \* the last step taken and its inputs

vars == <<state, st, out, pc, ts, cmd, last>>

(***************************************************************************)
(* Generic helpers: exceptions, immutable Map, arrays.                     *)
(***************************************************************************)
Throw(cls, msg) == [kind |-> "error", class |-> cls, message |-> msg]
IsErr(x) == ("kind" \in DOMAIN x) /\ x.kind = "error"

EmptyMap == [x \in {} |-> TRUE]
MapHas(m, k) == k \in DOMAIN m
MapSet(m, k, v) == [x \in (DOMAIN m) \cup {k} |-> IF x = k THEN v ELSE m[x]]

Null == [kind |-> "null"]
BQ == "'"
Cons(x, s) == <<x>> \o s

\* const v = ...; F(v): the value is computed once and named in F.
With(v, F(_)) == F(v)

\* Array.prototype.findIndex, 0-based, -1 when absent; entries are tuples
\* whose first component is the name.
RECURSIVE findIndexFrom(_, _, _)
findIndexFrom(arr, n, i) ==
    IF i > Len(arr) THEN -1
    ELSE IF arr[i][1] = n THEN i - 1
    ELSE findIndexFrom(arr, n, i + 1)
findIndex(arr, n) == findIndexFrom(arr, n, 1)

(***************************************************************************)
(* Ty                                                                      *)
(***************************************************************************)
TBase(n) == [kind |-> "base", name |-> n]
TArrow(l, r) == [kind |-> "arrow", left |-> l, right |-> r]

RECURSIVE TyToString(_, _)
TyToString(ty, left) ==
    IF ty.kind = "base" THEN ty.name
    ELSE LET s == TyToString(ty.left, TRUE) \o " -> " \o TyToString(ty.right, FALSE)
         IN IF left THEN "(" \o s \o ")" ELSE s

RECURSIVE TyEq(_, _)
TyEq(a, b) ==
    IF a.kind = "base" /\ b.kind = "base" THEN a.name = b.name
    ELSE IF a.kind = "arrow" /\ b.kind = "arrow"
         THEN TyEq(a.left, b.left) /\ TyEq(a.right, b.right)
    ELSE FALSE

(***************************************************************************)
(* Term and MCtx                                                           *)
(***************************************************************************)
BVar(i) == [kind |-> "bvar", idx |-> i]
FVar(i) == [kind |-> "fvar", idx |-> i]
MVar(n) == [kind |-> "mvar", name |-> n]
App(f, a) == [kind |-> "app", fn |-> f, arg |-> a]
Lam(n, ty, b) == [kind |-> "lam", name |-> n, ty |-> ty, body |-> b]
Const(n) == [kind |-> "const", name |-> n]

MCtxDefault == [assignment |-> EmptyMap, types |-> EmptyMap, counter |-> 0]

MCtxGetAssignment(mctx, m) ==
    IF MapHas(mctx.assignment, m) THEN mctx.assignment[m] ELSE Null

MCtxAssign(mctx, m, t) ==
    [mctx EXCEPT !.assignment = MapSet(mctx.assignment, m, t)]

mkFreshMVarSameCounter(mctx, ty) ==
    LET name == "_m" \o ToString(mctx.counter)
    IN << [mctx EXCEPT !.types = MapSet(mctx.types, name, ty)], MVar(name) >>

mkFreshMVar(mctx, ty) ==
    LET name == "_m" \o ToString(mctx.counter)
    IN << [mctx EXCEPT !.types = MapSet(mctx.types, name, ty),
                       !.counter = mctx.counter + 1],
          MVar(name) >>

RECURSIVE TermToString(_, _, _, _)
TermToString(t, fctx, bctx, prec) ==
    CASE t.kind = "bvar" ->
           IF t.idx + 1 <= Len(bctx) THEN bctx[t.idx + 1][1] ELSE "#" \o ToString(t.idx)
      [] t.kind = "fvar" ->
           IF t.idx + 1 <= Len(fctx) THEN fctx[t.idx + 1][1] ELSE "?" \o ToString(t.idx)
      [] t.kind = "mvar" -> "$" \o t.name
      [] t.kind = "app" ->
           LET sApp == TermToString(t.fn, fctx, bctx, 1) \o " "
                         \o TermToString(t.arg, fctx, bctx, 2)
           IN IF prec > 1 THEN "(" \o sApp \o ")" ELSE sApp
      [] t.kind = "lam" ->
           LET sLam == "\\" \o t.name \o " : " \o TyToString(t.ty, FALSE) \o ", "
                         \o TermToString(t.body, fctx, Cons(<<t.name, t.ty>>, bctx), 0)
           IN IF prec > 0 THEN "(" \o sLam \o ")" ELSE sLam
      [] t.kind = "const" -> t.name

RECURSIVE TermInstM(_, _)
TermInstM(mctx, t) ==
    CASE t.kind = "mvar" ->
           LET v == MCtxGetAssignment(mctx, t.name)
           IN IF v # Null THEN TermInstM(mctx, v) ELSE t
      [] t.kind = "app" -> App(TermInstM(mctx, t.fn), TermInstM(mctx, t.arg))
      [] t.kind = "lam" -> Lam(t.name, t.ty, TermInstM(mctx, t.body))
      [] OTHER -> t

RECURSIVE occursM(_, _, _)
occursMDirect(mctx, t, m) ==
    CASE t.kind = "mvar" -> t.name = m
      [] t.kind = "app" -> occursM(mctx, t.fn, m) \/ occursM(mctx, t.arg, m)
      [] t.kind = "lam" -> occursM(mctx, t.body, m)
      [] OTHER -> FALSE

occursM(mctx, t, m) ==
    CASE t.kind = "mvar" ->
           IF t.name = m THEN TRUE
           ELSE LET v == MCtxGetAssignment(mctx, t.name)
                IN IF v # Null THEN occursM(mctx, v, m) ELSE FALSE
      [] t.kind = "app" -> occursM(mctx, t.fn, m) \/ occursM(mctx, t.arg, m)
      [] t.kind = "lam" -> occursM(mctx, t.body, m)
      [] OTHER -> FALSE

RECURSIVE liftB(_, _, _)
liftB(t, n, k) ==
    CASE t.kind = "bvar" -> IF t.idx < k THEN t ELSE BVar(t.idx + n)
      [] t.kind = "app" -> App(liftB(t.fn, n, k), liftB(t.arg, n, k))
      [] t.kind = "lam" -> Lam(t.name, t.ty, liftB(t.body, n, k + 1))
      [] OTHER -> t

RECURSIVE substB(_, _, _)
substB(t, u, k) ==
    CASE t.kind = "bvar" ->
           IF t.idx = k THEN liftB(u, k, 0)
           ELSE IF t.idx > k THEN BVar(t.idx - 1)
           ELSE t
      [] t.kind = "app" -> App(substB(t.fn, u, k), substB(t.arg, u, k))
      [] t.kind = "lam" -> Lam(t.name, t.ty, substB(t.body, u, k + 1))
      [] OTHER -> t

RECURSIVE liftF(_, _, _)
liftF(t, n, k) ==
    CASE t.kind = "fvar" -> IF t.idx < k THEN t ELSE FVar(t.idx + n)
      [] t.kind = "app" -> App(liftF(t.fn, n, k), liftF(t.arg, n, k))
      [] t.kind = "lam" -> Lam(t.name, t.ty, liftF(t.body, n, k + 1))
      [] OTHER -> t

RECURSIVE TermSubstF(_, _, _)
TermSubstF(t, u, k) ==
    CASE t.kind = "fvar" ->
           IF t.idx = k THEN liftF(u, k, 0)
           ELSE IF t.idx > k THEN FVar(t.idx - 1)
           ELSE t
      [] t.kind = "app" -> App(TermSubstF(t.fn, u, k), TermSubstF(t.arg, u, k))
      [] t.kind = "lam" -> Lam(t.name, t.ty, TermSubstF(t.body, u, k))
      [] OTHER -> t

RECURSIVE inferType(_, _, _, _, _)
inferType(mctx, cctx, fctx, bctx, t) ==
    CASE t.kind = "bvar" ->
           IF t.idx < Len(bctx) THEN bctx[t.idx + 1][2]
           ELSE Throw("Error", "invalid bvar: #" \o ToString(t.idx))
      [] t.kind = "fvar" ->
           IF t.idx < Len(fctx) THEN fctx[t.idx + 1][2]
           ELSE Throw("Error", "invalid fvar: ?" \o ToString(t.idx))
      [] t.kind = "mvar" ->
           IF MapHas(mctx.types, t.name) THEN mctx.types[t.name]
           ELSE Throw("Error", "invalid mvar: $" \o t.name)
      [] t.kind = "app" ->
           LET fnTy == inferType(mctx, cctx, fctx, bctx, t.fn)
               argTy == inferType(mctx, cctx, fctx, bctx, t.arg)
           IN IF IsErr(fnTy) THEN fnTy
              ELSE IF fnTy.kind # "arrow" THEN Throw("Error", "function type expected")
              ELSE IF IsErr(argTy) THEN argTy
              ELSE IF ~TyEq(fnTy.left, argTy)
                   THEN Throw("Error", "type mismatch in application")
              ELSE fnTy.right
      [] t.kind = "lam" ->
           LET bodyTy == inferType(mctx, cctx, fctx, Cons(<<t.name, t.ty>>, bctx), t.body)
           IN IF IsErr(bodyTy) THEN bodyTy ELSE TArrow(t.ty, bodyTy)
      [] t.kind = "const" ->
           IF MapHas(cctx, t.name) THEN cctx[t.name]
           \* the message quotes the name in backquotes, a character a TLA+ string
           \* cannot hold; BQ stands for it
           ELSE Throw("Error", "unknown const: " \o BQ \o t.name \o BQ)

RECURSIVE whnf(_, _)
whnfKeepMVar(mctx, t) ==
    CASE t.kind = "app" ->
           LET fn == whnf(mctx, t.fn)
           IN IF fn.kind = "lam" THEN whnf(mctx, substB(fn.body, t.arg, 0))
              ELSE App(fn, t.arg)
      [] OTHER -> t

whnf(mctx, t) ==
    CASE t.kind = "app" ->
           LET fn == whnf(mctx, t.fn)
           IN IF fn.kind = "lam" THEN whnf(mctx, substB(fn.body, t.arg, 0))
              ELSE App(fn, t.arg)
      [] t.kind = "mvar" ->
           LET v == MCtxGetAssignment(mctx, t.name)
           IN IF v # Null THEN whnf(mctx, v) ELSE t
      [] OTHER -> t

RECURSIVE TermIsDefEq(_, _, _)
TermIsDefEq(mctx, t1, t2) ==
    LET n1 == whnf(mctx, t1)
        n2 == whnf(mctx, t2)
    IN CASE n1.kind = "bvar" /\ n2.kind = "bvar" -> <<mctx, n1.idx = n2.idx>>
         [] n1.kind = "fvar" /\ n2.kind = "fvar" -> <<mctx, n1.idx = n2.idx>>
         [] n1.kind = "const" /\ n2.kind = "const" -> <<mctx, n1.name = n2.name>>
         [] n1.kind = "mvar" /\ n2.kind = "mvar" ->
              IF n1.name = n2.name THEN <<mctx, TRUE>>
              ELSE <<MCtxAssign(mctx, n1.name, n2), TRUE>>
         [] n1.kind = "mvar" /\ n2.kind # "mvar" ->
              IF occursM(mctx, n2, n1.name) THEN <<mctx, FALSE>>
              ELSE <<MCtxAssign(mctx, n1.name, n2), TRUE>>
         [] n1.kind # "mvar" /\ n2.kind = "mvar" ->
              IF occursM(mctx, n1, n2.name) THEN <<mctx, FALSE>>
              ELSE <<MCtxAssign(mctx, n2.name, n1), TRUE>>
         [] n1.kind = "lam" /\ n2.kind = "lam" ->
              IF ~TyEq(n1.ty, n2.ty) THEN <<mctx, FALSE>>
              ELSE TermIsDefEq(mctx, n1.body, n2.body)
         [] n1.kind = "app" /\ n2.kind = "app" ->
              LET r1 == TermIsDefEq(mctx, n1.fn, n2.fn)
                  r2 == TermIsDefEq(r1[1], n1.arg, n2.arg)
              IN IF ~r1[2] THEN <<mctx, FALSE>>
                 ELSE IF ~r2[2] THEN <<mctx, FALSE>>
                 ELSE <<r2[1], TRUE>>
         [] OTHER -> <<mctx, FALSE>>

(***************************************************************************)
(* Rule                                                                    *)
(***************************************************************************)
Proves(p) == [kind |-> "proves", p |-> p]
Implies(P, Q) == [kind |-> "implies", P |-> P, Q |-> Q]
All(n, s, P) == [kind |-> "all", name |-> n, s |-> s, P |-> P]

RECURSIVE RuleToString(_, _, _)
RuleToString(r, fctx, prec) ==
    CASE r.kind = "proves" -> TermToString(r.p, fctx, <<>>, 0)
      [] r.kind = "implies" ->
           LET sImp == RuleToString(r.P, fctx, 2) \o " => " \o RuleToString(r.Q, fctx, 1)
           IN IF prec > 1 THEN "(" \o sImp \o ")" ELSE sImp
      [] r.kind = "all" ->
           LET sAll == "!! " \o r.name \o " : " \o TyToString(r.s, FALSE) \o ", "
                         \o RuleToString(r.P, Cons(<<r.name, r.s>>, fctx), 0)
           IN IF prec > 0 THEN "(" \o sAll \o ")" ELSE sAll

RECURSIVE RuleSubstF(_, _, _)
RuleSubstF(r, u, k) ==
    CASE r.kind = "proves" -> Proves(TermSubstF(r.p, liftF(u, k, 0), k))
      [] r.kind = "implies" -> Implies(RuleSubstF(r.P, u, k), RuleSubstF(r.Q, u, k))
      [] r.kind = "all" -> All(r.name, r.s, RuleSubstF(r.P, u, k + 1))

RECURSIVE RuleInstM(_, _)
RuleInstM(mctx, r) ==
    CASE r.kind = "proves" -> Proves(TermInstM(mctx, r.p))
      [] r.kind = "implies" -> Implies(RuleInstM(mctx, r.P), RuleInstM(mctx, r.Q))
      [] r.kind = "all" -> All(r.name, r.s, RuleInstM(mctx, r.P))

RECURSIVE RuleIsDefEq(_, _, _)
RuleIsDefEqLeaky(mctx, r1, r2) ==
    CASE r1.kind = "proves" /\ r2.kind = "proves" ->
           LET d == TermIsDefEq(mctx, r1.p, r2.p)
           IN IF d[2] THEN <<d[1], TRUE>> ELSE <<mctx, FALSE>>
      [] r1.kind = "implies" /\ r2.kind = "implies" ->
           LET d1 == RuleIsDefEq(mctx, r1.P, r2.P)
               d2 == RuleIsDefEq(d1[1], r1.Q, r2.Q)
           IN IF ~d1[2] THEN <<mctx, FALSE>>
              ELSE IF ~d2[2] THEN <<d1[1], FALSE>>
              ELSE <<d2[1], TRUE>>
      [] r1.kind = "all" /\ r2.kind = "all" ->
           IF ~TyEq(r1.s, r2.s) THEN <<mctx, FALSE>>
           ELSE RuleIsDefEq(mctx, r1.P, r2.P)
      [] OTHER -> <<mctx, FALSE>>

RuleIsDefEq(mctx, r1, r2) ==
    CASE r1.kind = "proves" /\ r2.kind = "proves" ->
           LET d == TermIsDefEq(mctx, r1.p, r2.p)
           IN IF d[2] THEN <<d[1], TRUE>> ELSE <<mctx, FALSE>>
      [] r1.kind = "implies" /\ r2.kind = "implies" ->
           LET d1 == RuleIsDefEq(mctx, r1.P, r2.P)
               d2 == RuleIsDefEq(d1[1], r1.Q, r2.Q)
           IN IF ~d1[2] THEN <<mctx, FALSE>>
              ELSE IF ~d2[2] THEN <<mctx, FALSE>>
              ELSE <<d2[1], TRUE>>
      [] r1.kind = "all" /\ r2.kind = "all" ->
           IF ~TyEq(r1.s, r2.s) THEN <<mctx, FALSE>>
           ELSE RuleIsDefEq(mctx, r1.P, r2.P)
      [] OTHER -> <<mctx, FALSE>>

\* A boolean result is wrapped as Bool(..) so that the exception inferType
\* throws can be returned in its place.
Bool(b) == [kind |-> "bool", val |-> b]
RECURSIVE isWF(_, _, _, _)
isWF(mctx, cctx, fctx, r) ==
    CASE r.kind = "proves" ->
           LET ty == inferType(mctx, cctx, fctx, <<>>, r.p)
           IN IF IsErr(ty) THEN ty ELSE Bool(ty.kind = "base")
      [] r.kind = "implies" ->
           LET a == isWF(mctx, cctx, fctx, r.P)
               b == isWF(mctx, cctx, fctx, r.Q)
           IN IF IsErr(a) THEN a
              ELSE IF ~a.val THEN Bool(FALSE)
              ELSE b
      [] r.kind = "all" -> isWF(mctx, cctx, Cons(<<r.name, r.s>>, fctx), r.P)

(***************************************************************************)
(* Proof                                                                   *)
(***************************************************************************)
Hole(n) == [kind |-> "hole", name |-> n]
Ax(n) == [kind |-> "ax", name |-> n]
Hyp(i) == [kind |-> "hyp", idx |-> i]
ImpI(P, hq) == [kind |-> "impI", P |-> P, hq |-> hq]
ImpE(hpq, hp) == [kind |-> "impE", hpq |-> hpq, hp |-> hp]
AllI(n, s, h) == [kind |-> "allI", name |-> n, s |-> s, h |-> h]
AllE(h, t) == [kind |-> "allE", h |-> h, t |-> t]

RECURSIVE check(_, _, _, _, _, _)
check(mctx, cctx, ax, ctx, fctx, p) ==
    CASE p.kind = "hole" -> Throw("Error", "proof has a hole")
      [] p.kind = "ax" ->
           IF MapHas(ax, p.name) THEN ax[p.name]
           ELSE Throw("Error", "invalid axiom: " \o p.name)
      [] p.kind = "hyp" ->
           IF p.idx < Len(ctx) THEN ctx[p.idx + 1]
           ELSE Throw("Error", "invalid hypothesis: #" \o ToString(p.idx))
      [] p.kind = "impI" ->
           LET Q == check(mctx, cctx, ax, Append(ctx, p.P), fctx, p.hq)
           IN IF IsErr(Q) THEN Q ELSE Implies(p.P, Q)
      [] p.kind = "impE" ->
           LET imp == check(mctx, cctx, ax, ctx, fctx, p.hpq)
               PImp == check(mctx, cctx, ax, ctx, fctx, p.hp)
           IN IF IsErr(imp) THEN imp
              ELSE IF imp.kind # "implies" THEN Throw("Error", "implies expected at impE")
              ELSE IF IsErr(PImp) THEN PImp
              ELSE IF ~RuleIsDefEq(mctx, imp.P, PImp)[2]
                   THEN Throw("Error", RuleToString(imp.P, fctx, 0) \o " != "
                                         \o RuleToString(PImp, fctx, 0))
              ELSE imp.Q
      [] p.kind = "allI" ->
           LET PAll == check(mctx, cctx, ax, ctx, Cons(<<p.name, p.s>>, fctx), p.h)
           IN IF IsErr(PAll) THEN PAll ELSE All(p.name, p.s, PAll)
      [] p.kind = "allE" ->
           LET all == check(mctx, cctx, ax, ctx, fctx, p.h)
               ty == inferType(mctx, cctx, fctx, <<>>, p.t)
           IN IF IsErr(all) THEN all
              ELSE IF all.kind # "all" THEN Throw("Error", "all expected at allE")
              ELSE IF IsErr(ty) THEN ty
              ELSE IF ~TyEq(all.s, ty) THEN Throw("Error", "type mismatch at allE")
              ELSE RuleSubstF(all.P, p.t, 0)

RECURSIVE instHole(_, _)
instHole(p, proofs) ==
    CASE p.kind = "hole" ->
           IF MapHas(proofs, p.name) THEN instHole(proofs[p.name], proofs) ELSE p
      [] p.kind = "impI" -> ImpI(p.P, instHole(p.hq, proofs))
      [] p.kind = "impE" -> ImpE(instHole(p.hpq, proofs), instHole(p.hp, proofs))
      [] p.kind = "allI" -> AllI(p.name, p.s, instHole(p.h, proofs))
      [] p.kind = "allE" -> AllE(instHole(p.h, proofs), p.t)
      [] OTHER -> p

(***************************************************************************)
(* Tactic.  A Goal is [holeId, target, ctx, fctx]; a ctx entry is          *)
(* <<name, rule, proof or Null>>, an fctx entry <<name, ty>>.  A           *)
(* TacticState is [goals, proofs, axioms, cctx, mctx].                     *)
(***************************************************************************)
NoGoalsError == Throw("NoGoalsError", "no goals to solve")
AssumptionError == Throw("AssumptionError", "assumption failed")
IntroError == Throw("IntroError", "intro failed")
UnknownIdError(id) == Throw("UnknownIdError", "unknown identifier: " \o id)
NotDefEqError(P, Q) ==
    Throw("NotDefEqError", P \o " is not definitionally equal to " \o Q)
TypeMismatchError(t, ty1, ty2) ==
    Throw("TypeMismatchError", "type mismatch: " \o t \o " has type " \o ty1
                                 \o " but expected to have type " \o ty2)
ApplyExcessArgumentError ==
    Throw("ApplyExcessArgumentError", "apply failed: excess arguments")
NotApplicableError == Throw("NotApplicableError", "apply failed: not applicable")

getGoal(t) == IF Len(t.goals) = 0 THEN NoGoalsError ELSE t.goals[1]

replaceGoalNoInst(t, newGoals) ==
    IF Len(t.goals) = 0 THEN NoGoalsError
    ELSE [t EXCEPT !.goals = newGoals \o Tail(t.goals)]

replaceGoal(t, newGoals) ==
    IF Len(t.goals) = 0 THEN NoGoalsError
    ELSE LET goals == newGoals \o Tail(t.goals)
         IN [t EXCEPT !.goals =
               [i \in 1..Len(goals) |->
                  [goals[i] EXCEPT
                     !.target = RuleInstM(t.mctx, goals[i].target),
                     !.ctx = [j \in 1..Len(goals[i].ctx) |->
                                <<goals[i].ctx[j][1],
                                  RuleInstM(t.mctx, goals[i].ctx[j][2]),
                                  goals[i].ctx[j][3]>>]]]]

assignProofDropped(t, holeId, p) == t

assignProof(t, holeId, p) == [t EXCEPT !.proofs = MapSet(t.proofs, holeId, p)]

mkHole(t, target, ctx, fctx) ==
    LET name == "_hole_" \o ToString(t.mctx.counter)
        newGoal == [holeId |-> name, target |-> target, ctx |-> ctx, fctx |-> fctx]
    IN << [t EXCEPT !.mctx.counter = t.mctx.counter + 1], Hole(name), newGoal >>

RECURSIVE assumptionFrom(_, _, _)
assumptionFrom(t, g, i) ==
    IF i >= Len(g.ctx) THEN AssumptionError
    ELSE LET rule == g.ctx[i + 1][2]
             p == g.ctx[i + 1][3]
             d == RuleIsDefEq(t.mctx, rule, g.target)
         IN IF ~d[2] THEN assumptionFrom(t, g, i + 1)
            ELSE LET ts1 == [t EXCEPT !.mctx = d[1]]
                     ts2 == assignProof(ts1, g.holeId, IF p # Null THEN p ELSE Hyp(i))
                 IN replaceGoal(ts2, <<>>)

assumption(t) ==
    LET g == getGoal(t)
    IN IF IsErr(g) THEN g ELSE assumptionFrom(t, g, 0)

introAtHead(t, name) ==
    LET g == getGoal(t)
    IN IF IsErr(g) THEN g
       ELSE CASE g.target.kind = "implies" ->
                   LET h == mkHole(t, g.target.Q,
                                   Cons(<<name, g.target.P, Null>>, g.ctx), g.fctx)
                       ts2 == assignProof(h[1], g.holeId, ImpI(g.target.P, h[2]))
                   IN replaceGoal(ts2, <<h[3]>>)
              [] g.target.kind = "all" ->
                   LET h == mkHole(t, g.target.P, g.ctx,
                                   Cons(<<name, g.target.s>>, g.fctx))
                       ts4 == assignProof(h[1], g.holeId, AllI(name, g.target.s, h[2]))
                   IN replaceGoal(ts4, <<h[3]>>)
              [] OTHER -> IntroError

intro(t, name) ==
    LET g == getGoal(t)
    IN IF IsErr(g) THEN g
       ELSE CASE g.target.kind = "implies" ->
                   LET h == mkHole(t, g.target.Q,
                                   Append(g.ctx, <<name, g.target.P, Null>>), g.fctx)
                       ts2 == assignProof(h[1], g.holeId, ImpI(g.target.P, h[2]))
                   IN replaceGoal(ts2, <<h[3]>>)
              [] g.target.kind = "all" ->
                   LET h == mkHole(t, g.target.P, g.ctx,
                                   Cons(<<name, g.target.s>>, g.fctx))
                       ts4 == assignProof(h[1], g.holeId, AllI(name, g.target.s, h[2]))
                   IN replaceGoal(ts4, <<h[3]>>)
              [] OTHER -> IntroError

RECURSIVE applyCore(_, _, _, _)
applyCoreGoalsReversed(t, p, r, goals) ==
    LET g == getGoal(t)
    IN IF IsErr(g) THEN g
       ELSE LET d == RuleIsDefEq(t.mctx, r, g.target)
            IN IF d[2]
               THEN replaceGoal(assignProof([t EXCEPT !.mctx = d[1]], g.holeId, p), goals)
               ELSE CASE r.kind = "implies" ->
                           LET h == mkHole(t, r.P, g.ctx, g.fctx)
                           IN applyCore(h[1], ImpE(p, h[2]), r.Q, Cons(h[3], goals))
                      [] r.kind = "all" ->
                           LET m == mkFreshMVar(t.mctx, r.s)
                               P == RuleSubstF(r.P, m[2], 0)
                           IN applyCore([t EXCEPT !.mctx = m[1]], AllE(p, m[2]), P, goals)
                      [] OTHER ->
                           NotDefEqError(RuleToString(r, g.fctx, 0),
                                         RuleToString(g.target, g.fctx, 0))

applyCore(t, p, r, goals) ==
    LET g == getGoal(t)
    IN IF IsErr(g) THEN g
       ELSE LET d == RuleIsDefEq(t.mctx, r, g.target)
            IN IF d[2]
               THEN replaceGoal(assignProof([t EXCEPT !.mctx = d[1]], g.holeId, p), goals)
               ELSE CASE r.kind = "implies" ->
                           LET h == mkHole(t, r.P, g.ctx, g.fctx)
                           IN applyCore(h[1], ImpE(p, h[2]), r.Q, Append(goals, h[3]))
                      [] r.kind = "all" ->
                           LET m == mkFreshMVar(t.mctx, r.s)
                               P == RuleSubstF(r.P, m[2], 0)
                           IN applyCore([t EXCEPT !.mctx = m[1]], AllE(p, m[2]), P, goals)
                      [] OTHER ->
                           NotDefEqError(RuleToString(r, g.fctx, 0),
                                         RuleToString(g.target, g.fctx, 0))

\* An argument of `apply` is a string, modelled as Str(s), or a Term.
Str(s) == [kind |-> "string", val |-> s]

RECURSIVE applyArgs(_, _, _, _)
applyArgs(t, p, r, args) ==
    LET g == getGoal(t)
    IN IF IsErr(g) THEN g
       ELSE IF Len(args) = 0 THEN applyCore(t, p, r, <<>>)
       ELSE
         LET a == Head(args)
             nextArgs == Tail(args)
         IN IF a.kind = "string"
            THEN CASE r.kind = "implies" ->
                        LET idx == findIndex(g.ctx, a.val)
                            d == RuleIsDefEq(t.mctx, r.P, g.ctx[idx + 1][2])
                        IN IF idx = -1 THEN UnknownIdError(a.val)
                           ELSE IF ~d[2]
                                THEN NotDefEqError(RuleToString(r.P, g.fctx, 0),
                                       RuleToString(g.ctx[idx + 1][2], g.fctx, 0))
                           ELSE applyArgs([t EXCEPT !.mctx = d[1]],
                                          ImpE(p, Hyp(idx)), r.Q, nextArgs)
                   [] r.kind = "all" ->
                        LET idx2 == findIndex(g.fctx, a.val)
                        IN IF idx2 # -1
                           THEN applyArgs(t, AllE(p, FVar(idx2)),
                                          RuleSubstF(r.P, FVar(idx2), 0), nextArgs)
                           ELSE IF MapHas(t.cctx, a.val)
                           THEN IF ~TyEq(t.cctx[a.val], r.s)
                                THEN TypeMismatchError(a.val,
                                       TyToString(t.cctx[a.val], FALSE),
                                       TyToString(r.s, FALSE))
                                ELSE applyArgs(t, AllE(p, Const(a.val)),
                                       RuleSubstF(r.P, Const(a.val), 0), nextArgs)
                           ELSE UnknownIdError(a.val)
                   [] OTHER -> ApplyExcessArgumentError
            ELSE IF r.kind # "all" THEN NotApplicableError
                 ELSE LET ty == inferType(t.mctx, t.cctx, g.fctx, <<>>, a)
                      IN IF IsErr(ty) THEN ty
                         ELSE IF ~TyEq(ty, r.s)
                              THEN TypeMismatchError(TermToString(a, g.fctx, <<>>, 0),
                                     TyToString(ty, FALSE), TyToString(r.s, FALSE))
                         ELSE applyArgs(t, AllE(p, a), RuleSubstF(r.P, a, 0), nextArgs)

apply(t, name, args) ==
    LET g == getGoal(t)
    IN IF IsErr(g) THEN g
       ELSE LET idx == findIndex(g.ctx, name)
            IN IF idx # -1
               THEN applyArgs(t, Hyp(idx), g.ctx[idx + 1][2], args)
               ELSE IF MapHas(t.axioms, name)
               THEN applyArgs(t, Ax(name), t.axioms[name], args)
               ELSE UnknownIdError(name)

have(t, name, r) ==
    LET g == getGoal(t)
    IN IF IsErr(g) THEN g
       ELSE LET h == mkHole(t, r, g.ctx, g.fctx)
                newGoal == [g EXCEPT !.ctx = Append(g.ctx, <<name, r, h[2]>>)]
            IN replaceGoal(h[1], <<h[3], newGoal>>)

(***************************************************************************)
(* SeparatorTrie.  A TrieNode is a function from single characters (and    *)
(* the END key) to TrieNodes; the END key maps to TRUE.                    *)
(***************************************************************************)
END_KEY == "END"
CharAt(text, i) == SubSeq(text, i + 1, i + 1)           \* text[i], 0-based
Slice(text, a, b) ==                                    \* text.slice(a, b)
    SubSeq(text, a + 1, IF b > Len(text) THEN Len(text) ELSE b)

RECURSIVE setIn(_, _, _)
setIn(node, word, i) ==
    IF i >= Len(word) THEN MapSet(node, END_KEY, TRUE)
    ELSE LET c == CharAt(word, i)
             child == IF MapHas(node, c) THEN node[c] ELSE EmptyMap
         IN MapSet(node, c, setIn(child, word, i + 1))

insertEmptyToo(trie, word) == setIn(trie, word, 0)

insert(trie, word) == IF Len(word) = 0 THEN trie ELSE setIn(trie, word, 0)

RECURSIVE matchLongestFrom(_, _, _, _, _)
matchLongestFromGreedy(node, text, i, currentLength, maxMatchLength) ==
    IF i >= Len(text) THEN currentLength
    ELSE LET c == CharAt(text, i)
         IN IF ~MapHas(node, c) THEN currentLength
            ELSE matchLongestFrom(node[c], text, i + 1, currentLength + 1,
                                  IF MapHas(node[c], END_KEY) THEN currentLength + 1
                                  ELSE maxMatchLength)

matchLongestFrom(node, text, i, currentLength, maxMatchLength) ==
    IF i >= Len(text) THEN maxMatchLength
    ELSE LET c == CharAt(text, i)
         IN IF ~MapHas(node, c) THEN maxMatchLength
            ELSE matchLongestFrom(node[c], text, i + 1, currentLength + 1,
                                  IF MapHas(node[c], END_KEY) THEN currentLength + 1
                                  ELSE maxMatchLength)

matchLongest(trie, text, start) == matchLongestFrom(trie, text, start, 0, 0)

RECURSIVE hasIn(_, _, _)
hasIn(node, word, i) ==
    IF i >= Len(word) THEN MapHas(node, END_KEY)
    ELSE MapHas(node, CharAt(word, i)) /\ hasIn(node[CharAt(word, i)], word, i + 1)

has(trie, word) == hasIn(trie, word, 0)

(***************************************************************************)
(* TokenStream: [text, index].  readToken returns [token, nextIndex]; the  *)
(* token `undefined` is modelled as the empty string, which no token is    *)
(* (the code only ever tests a token for truthiness before using it).      *)
(***************************************************************************)
Undefined == ""
IsSpace(c) == c \in {" ", "\t", "\n"}
IsDigit(c) == c \in {"0", "1", "2", "3", "4", "5", "6", "7", "8", "9"}

RECURSIVE skipSpace(_, _)
skipSpace(text, start) ==
    IF start < Len(text) /\ IsSpace(CharAt(text, start))
    THEN skipSpace(text, start + 1) ELSE start

\* The scan of a string literal: the index after it.
RECURSIVE scanString(_, _)
scanString(text, end) ==
    IF end >= Len(text) THEN end
    ELSE IF CharAt(text, end) = "\"" THEN end + 1
    ELSE IF CharAt(text, end) = "\\" THEN scanString(text, end + 2)
    ELSE scanString(text, end + 1)

RECURSIVE scanDigits(_, _)
scanDigits(text, end) ==
    IF end < Len(text) /\ IsDigit(CharAt(text, end))
    THEN scanDigits(text, end + 1) ELSE end

RECURSIVE scanIdent(_, _, _)
scanIdent(trie, text, end) ==
    IF end >= Len(text) THEN end
    ELSE IF IsSpace(CharAt(text, end)) THEN end
    ELSE IF matchLongest(trie, text, end) > 0 THEN end
    ELSE scanIdent(trie, text, end + 1)

Tok(token, nextIndex) == [token |-> token, nextIndex |-> nextIndex]

readToken(s, trie) ==
    With(skipSpace(s.text, s.index), LAMBDA start :
      IF start >= Len(s.text) THEN Tok(Undefined, start)
      ELSE IF CharAt(s.text, start) = "\""
           THEN With(scanString(s.text, start + 1), LAMBDA end :
                  Tok(Slice(s.text, start, end), end))
      ELSE IF IsDigit(CharAt(s.text, start))
           THEN With(scanDigits(s.text, start + 1), LAMBDA end :
                  Tok(Slice(s.text, start, end), end))
      ELSE With(matchLongest(trie, s.text, start), LAMBDA sepLen :
             IF sepLen > 0
             THEN Tok(Slice(s.text, start, start + sepLen), start + sepLen)
             ELSE With(scanIdent(trie, s.text, start), LAMBDA end :
                    Tok(Slice(s.text, start, end), end))))

peek(s, trie) == readToken(s, trie).token
next(s, trie) == [text |-> s.text, index |-> readToken(s, trie).nextIndex]
createTokenStream(text) == [text |-> text, index |-> 0]

(***************************************************************************)
(* Syntax, ParserDescr, Parser and the Pratt parser.                       *)
(***************************************************************************)
SIdent(v) == [kind |-> "ident", val |-> v]
SAtom(v) == [kind |-> "atom", val |-> v]
SStr(v) == [kind |-> "str", val |-> v]
SNum(v) == [kind |-> "num", val |-> v]
SNode(type, args) == [kind |-> "node", type |-> type, args |-> args]

DRecurse(type, prec) == [kind |-> "recurse", type |-> type, prec |-> prec]
DIdent == [kind |-> "ident"]
DStr == [kind |-> "str"]
DNum == [kind |-> "num"]
DSymbol(v) == [kind |-> "symbol", val |-> v]
DMany(rule) == [kind |-> "many", rule |-> rule]
DMany1(rule) == [kind |-> "many1", rule |-> rule]
Rule_(prec, descr) == [prec |-> prec, descr |-> descr]

Fail(reason, fatal) == [success |-> FALSE, reason |-> reason, fatal |-> fatal]
Ok(val, rest) == [success |-> TRUE, val |-> val, rest |-> rest]
OkArgs(args, rest) == [success |-> TRUE, args |-> args, rest |-> rest]

\* JSON.parse of a string-literal token: [ok, val].  Escapes \" \\ \/ \n \t
\* are decoded; the other JSON escapes (\b \f \r \uXXXX) are outside the
\* alphabet of the model's scripts; any other escape, a raw control
\* character and a missing closing quote make JSON.parse throw.
RECURSIVE jsonChars(_, _)
jsonChars(tok, i) ==
    IF i >= Len(tok) THEN [ok |-> FALSE, val |-> ""]
    ELSE LET c == CharAt(tok, i)
         IN IF c = "\"" THEN [ok |-> i = Len(tok) - 1, val |-> ""]
            ELSE IF c \in {"\n", "\t"} THEN [ok |-> FALSE, val |-> ""]
            ELSE IF c = "\\"
                 THEN LET e == CharAt(tok, i + 1)
                          r == jsonChars(tok, i + 2)
                      IN IF i + 1 >= Len(tok) \/ e \notin {"\"", "\\", "/", "n", "t"}
                         THEN [ok |-> FALSE, val |-> ""]
                         ELSE [ok |-> r.ok,
                               val |-> (CASE e = "n" -> "\n" [] e = "t" -> "\t"
                                          [] OTHER -> e) \o r.val]
            ELSE LET r == jsonChars(tok, i + 1)
                 IN [ok |-> r.ok, val |-> c \o r.val]

jsonParse(tok) == jsonChars(tok, 1)

DigitVal(c) ==
    CASE c = "0" -> 0 [] c = "1" -> 1 [] c = "2" -> 2 [] c = "3" -> 3 [] c = "4" -> 4
      [] c = "5" -> 5 [] c = "6" -> 6 [] c = "7" -> 7 [] c = "8" -> 8 [] c = "9" -> 9

\* parseInt of a token that starts with a digit: its leading digit run.
RECURSIVE parseIntFrom(_, _, _)
parseIntFrom(tok, i, acc) ==
    IF i >= Len(tok) \/ ~IsDigit(CharAt(tok, i)) THEN acc
    ELSE parseIntFrom(tok, i + 1, acc * 10 + DigitVal(CharAt(tok, i)))
parseInt(tok) == parseIntFrom(tok, 0, 0)

isPrefixRule(rule, targetType) ==
    \/ Len(rule.descr) = 0
    \/ ~(rule.descr[1].kind = "recurse" /\ rule.descr[1].type = targetType)

\* The selection of the infix rule for the lookahead token, Null when none.
RECURSIVE selectInfix(_, _, _, _)
selectInfix(infixRules, i, token, minPrec) ==
    IF i > Len(infixRules) THEN Null
    ELSE LET rule == infixRules[i]
         IN IF rule.prec < minPrec THEN selectInfix(infixRules, i + 1, token, minPrec)
            ELSE IF Len(rule.descr) < 2
                 THEN selectInfix(infixRules, i + 1, token, minPrec)
            ELSE IF rule.descr[2].kind = "symbol"
                 THEN IF token = rule.descr[2].val THEN rule
                      ELSE selectInfix(infixRules, i + 1, token, minPrec)
            ELSE IF rule.descr[2].kind \in {"ident", "recurse"} THEN rule
            ELSE selectInfix(infixRules, i + 1, token, minPrec)

RECURSIVE parse(_, _, _, _, _)
RECURSIVE parsePrefix(_, _, _, _, _, _)
RECURSIVE parseInfix(_, _, _, _, _, _, _)
RECURSIVE parseRule(_, _, _, _, _)
RECURSIVE parseRuleFrom(_, _, _, _, _, _, _)
RECURSIVE parseArg(_, _, _, _)
RECURSIVE parseMany(_, _, _, _, _)

\* parseArg, the many / many1 loop after `items` were read.
parseMany(curr, rule, parsers, trie, items) ==
    With(parseArg(curr, rule, parsers, trie), LAMBDA res :
      IF res.success THEN parseMany(res.rest, rule, parsers, trie, Append(items, res.val))
      ELSE IF res.fatal THEN res
      ELSE Ok(SNode("many", items), curr))

parseArg(stream, desc, parsers, trie) ==
    With(peek(stream, trie), LAMBDA token :
       CASE desc.kind = "symbol" ->
              IF token = Undefined
              THEN Fail("unexpected EOF, expected '" \o desc.val \o "'", FALSE)
              ELSE IF token = desc.val THEN Ok(SAtom(token), next(stream, trie))
              ELSE Fail("expected '" \o desc.val \o "', got '" \o token \o "'", FALSE)
         [] desc.kind = "ident" ->
              IF token = Undefined THEN Fail("unexpected EOF, expected identifier", FALSE)
              ELSE IF has(trie, token)
                   THEN Fail("expected identifier, got symbol '" \o token \o "'", FALSE)
              ELSE Ok(SIdent(token), next(stream, trie))
         [] desc.kind = "str" ->
              IF token = Undefined THEN Fail("unexpected EOF, expected string", FALSE)
              ELSE IF CharAt(token, 0) # "\""
                   THEN Fail("expected string literal, got '" \o token \o "'", FALSE)
              ELSE With(jsonParse(token), LAMBDA j :
                     IF j.ok THEN Ok(SStr(j.val), next(stream, trie))
                     ELSE Fail("invalid string literal: " \o token, TRUE))
         [] desc.kind = "num" ->
              IF token = Undefined THEN Fail("unexpected EOF, expected string", FALSE)
              ELSE IF ~IsDigit(CharAt(token, 0))
                   THEN Fail("expected natural literal, got '" \o token \o "'", FALSE)
              ELSE Ok(SNum(parseInt(token)), next(stream, trie))
         [] desc.kind = "recurse" -> parse(stream, desc.type, parsers, trie, desc.prec)
         [] desc.kind = "many" -> parseMany(stream, desc.rule, parsers, trie, <<>>)
         [] desc.kind = "many1" ->
              With(parseArg(stream, desc.rule, parsers, trie), LAMBDA firstRes :
                IF ~firstRes.success THEN firstRes
                ELSE parseMany(firstRes.rest, desc.rule, parsers, trie, <<firstRes.val>>))
         [] OTHER -> Fail("unknown parser descriptor", TRUE))

parseRuleFromUncommitted(currentStream, savedIndex, descr, i, args, parsers, trie) ==
    IF i >= Len(descr) THEN OkArgs(args, currentStream)
    ELSE With(parseArg(currentStream, descr[i + 1], parsers, trie), LAMBDA res :
           IF res.success
           THEN parseRuleFrom(res.rest, savedIndex, descr, i + 1,
                              Append(args, res.val), parsers, trie)
           ELSE Fail(res.reason, res.fatal))

\* parseRule, the loop over descr from position i (0-based) on.
parseRuleFrom(currentStream, savedIndex, descr, i, args, parsers, trie) ==
    IF i >= Len(descr) THEN OkArgs(args, currentStream)
    ELSE LET isCommitted == currentStream.index # savedIndex
         IN With(parseArg(currentStream, descr[i + 1], parsers, trie), LAMBDA res :
              IF res.success
              THEN parseRuleFrom(res.rest, savedIndex, descr, i + 1,
                                 Append(args, res.val), parsers, trie)
              ELSE Fail(res.reason, res.fatal \/ isCommitted))

parseRule(stream, descr, parsers, trie, leftInfix) ==
    IF leftInfix # Null
    THEN parseRuleFrom(stream, stream.index, descr, 1, <<leftInfix>>, parsers, trie)
    ELSE parseRuleFrom(stream, stream.index, descr, 0, <<>>, parsers, trie)

\* parse, the loop over the prefix rules from rule i on; the result of the
\* first rule that succeeds or fails fatally, else the last error.
parsePrefix(stream, prefixRules, i, parsers, trie, lastError) ==
    IF i > Len(prefixRules) THEN lastError
    ELSE With(parseRule(stream, prefixRules[i].descr, parsers, trie, Null), LAMBDA res :
           IF res.success THEN res
           ELSE IF res.fatal THEN res
           ELSE parsePrefix(stream, prefixRules, i + 1, parsers, trie, res))

\* parse, the infix loop.
parseInfix(left, currentStream, targetType, allRules, parsers, trie, minPrec) ==
    LET IsInfix(rule) == ~isPrefixRule(rule, targetType)
        infixRules == SelectSeq(allRules, IsInfix)
    IN With(peek(currentStream, trie), LAMBDA token :
         IF token = Undefined THEN Ok(left, currentStream)
         ELSE With(selectInfix(infixRules, 1, token, minPrec), LAMBDA infixMatchedRule :
           IF infixMatchedRule = Null THEN Ok(left, currentStream)
           ELSE With(parseRule(currentStream, infixMatchedRule.descr, parsers, trie, left),
                     LAMBDA res :
             IF res.success
             THEN parseInfix(SNode(targetType, res.args), res.rest, targetType,
                             allRules, parsers, trie, minPrec)
             ELSE IF res.fatal THEN res
             ELSE Ok(left, currentStream))))

parse(stream, targetType, parsers, trie, minPrec) ==
    LET allRules == IF MapHas(parsers, targetType) THEN parsers[targetType] ELSE <<>>
        IsPrefix(rule) == isPrefixRule(rule, targetType)
        prefixRules == SelectSeq(allRules, IsPrefix)
    IN IF Len(allRules) = 0
       THEN Fail("no rules for type '" \o targetType \o "'", FALSE)
       ELSE With(parsePrefix(stream, prefixRules, 1, parsers, trie,
                             Fail("unexpected syntax", FALSE)), LAMBDA pre :
              IF ~pre.success THEN pre
              ELSE parseInfix(SNode(targetType, pre.args), pre.rest, targetType,
                              allRules, parsers, trie, minPrec))

(***************************************************************************)
(* core.ts: the default grammar, the default separators, defaultCoreState. *)
(***************************************************************************)
defaultParsers ==
    [type \in {"command", "notation", "applyArg", "tactic", "rule", "term", "ty"} |->
       CASE type = "command" ->
              << Rule_(1024, << DSymbol("notation"), DSymbol(":"), DNum,
                                DMany1(DRecurse("notation", 0)), DSymbol(":"),
                                DRecurse("ty", 0), DSymbol(":="), DIdent >>),
                 Rule_(1024, << DSymbol("axiom"), DIdent, DSymbol(":"),
                                DRecurse("rule", 0) >>),
                 Rule_(1024, << DSymbol("prove"), DIdent, DSymbol(":"),
                                DRecurse("rule", 0), DSymbol("by"),
                                DMany(DRecurse("tactic", 0)) >>) >>
         [] type = "notation" ->
              << Rule_(1024, << DStr >>),
                 Rule_(1024, << DRecurse("ty", 0), DSymbol(":"), DNum >>) >>
         [] type = "applyArg" ->
              << Rule_(1024, << DIdent >>),
                 Rule_(1024, << DRecurse("term", 61) >>) >>
         [] type = "tactic" ->
              << Rule_(1024, << DSymbol("assum") >>),
                 Rule_(1024, << DSymbol("intro"), DMany1(DIdent) >>),
                 Rule_(1024, << DSymbol("apply"), DIdent,
                                DMany(DRecurse("applyArg", 0)) >>),
                 Rule_(1024, << DSymbol("have"), DIdent, DSymbol(":"),
                                DRecurse("rule", 0) >>) >>
         [] type = "rule" ->
              << Rule_(1024, << DSymbol("("), DRecurse("rule", 0), DSymbol(")") >>),
                 Rule_(1024, << DRecurse("term", 0) >>),
                 Rule_(1024, << DSymbol("!!"), DMany1(DIdent), DSymbol(":"),
                                DRecurse("ty", 0), DSymbol(","), DRecurse("rule", 0) >>),
                 Rule_(30, << DRecurse("rule", 31), DSymbol("=>"),
                              DRecurse("rule", 30) >>) >>
         [] type = "term" ->
              << Rule_(1024, << DSymbol("("), DRecurse("term", 0), DSymbol(")") >>),
                 Rule_(1024, << DIdent >>),
                 Rule_(1024, << DSymbol("\\"), DIdent, DSymbol(":"),
                                DRecurse("ty", 0), DSymbol(","), DRecurse("term", 0) >>),
                 Rule_(0, << DRecurse("term", 0), DRecurse("term", 1) >>) >>
         [] type = "ty" ->
              << Rule_(1024, << DSymbol("("), DRecurse("ty", 0), DSymbol(")") >>),
                 Rule_(1024, << DIdent >>),
                 Rule_(30, << DRecurse("ty", 31), DSymbol("->"),
                              DRecurse("ty", 30) >>) >>]

RECURSIVE insertAll(_, _, _)
insertAll(trie, words, i) ==
    IF i > Len(words) THEN trie ELSE insertAll(insert(trie, words[i]), words, i + 1)

defaultTrie ==
    insertAll(EmptyMap,
              << "(", ")", "->", "\\", ":", ",", "!!", "=>", ":=", "assum", "intro",
                 "apply", "have", "notation", "axiom", "prove", "by" >>, 1)

defaultCoreState ==
    [parsers |-> defaultParsers, trie |-> defaultTrie, notations |-> <<>>,
     constants |-> EmptyMap, axioms |-> EmptyMap]

(***************************************************************************)
(* elab.ts.  Every elaborator returns its value, or the error it throws.   *)
(***************************************************************************)
\* stx.args[i], 0-based; Null stands for undefined.
Arg(stx, i) == IF i < Len(stx.args) THEN stx.args[i + 1] ELSE Null
IsAtom(a, v) == a.kind = "atom" /\ a.val = v
IsNode(a, type) == a.kind = "node" /\ a.type = type

\* JSON.stringify of a string and of a Syntax (used in error messages).
RECURSIVE jsonEscape(_, _)
jsonEscape(s, i) ==
    IF i >= Len(s) THEN ""
    ELSE LET c == CharAt(s, i)
         IN (CASE c = "\"" -> "\\\"" [] c = "\\" -> "\\\\" [] c = "\n" -> "\\n"
               [] c = "\t" -> "\\t" [] OTHER -> c) \o jsonEscape(s, i + 1)
jsonString(s) == "\"" \o jsonEscape(s, 0) \o "\""

RECURSIVE stringify(_)
RECURSIVE stringifyArgs(_, _)
stringifyArgs(args, i) ==
    IF i > Len(args) THEN ""
    ELSE (IF i > 1 THEN "," ELSE "") \o stringify(args[i]) \o stringifyArgs(args, i + 1)
stringify(stx) ==
    IF stx.kind = "node"
    THEN "{\"kind\":\"node\",\"type\":" \o jsonString(stx.type) \o ",\"args\":["
           \o stringifyArgs(stx.args, 1) \o "]}"
    ELSE "{\"kind\":" \o jsonString(stx.kind) \o ",\"val\":"
           \o (IF stx.kind = "num" THEN ToString(stx.val) ELSE jsonString(stx.val)) \o "}"

Unreachable(stx) == Throw("Error", "unreachable: " \o stringify(stx))
UnexpectedSyntax(stx) == Throw("Error", "unexpected syntax: " \o stringify(stx))

RECURSIVE elabTy(_)
elabTy(stx) ==
    IF stx.kind # "node" THEN Unreachable(stx)
    ELSE IF stx.type # "ty" THEN Unreachable(stx)
    ELSE LET arg0 == Arg(stx, 0)
             arg1 == Arg(stx, 1)
             arg2 == Arg(stx, 2)
         IN IF arg0.kind = "ident" THEN TBase(arg0.val)
            ELSE IF IsNode(arg0, "ty") /\ IsAtom(arg1, "->") /\ IsNode(arg2, "ty")
                 THEN LET l == elabTy(arg0)
                          r == elabTy(arg2)
                      IN IF IsErr(l) THEN l ELSE IF IsErr(r) THEN r ELSE TArrow(l, r)
            ELSE IF IsAtom(arg0, "(") /\ IsNode(arg1, "ty") /\ IsAtom(arg2, ")")
                 THEN elabTy(arg1)
            ELSE Throw("Error", "unexpected syntax")

NoMatch == [kind |-> "nomatch"]

RECURSIVE elabTerm(_, _, _, _, _, _)
RECURSIVE matchNotation(_, _, _, _, _, _, _, _, _)
RECURSIVE tryNotations(_, _, _, _, _, _, _)

\* The inner loop of the notation loop, from descriptor i (0-based) on:
\* NoMatch, the term built, or the error a slot's elaboration throws.
matchNotation(stx, descr, i, res, bdepth, fdepth, bvMap, fvMap, notations) ==
    IF i >= Len(descr) THEN res
    ELSE LET arg == stx.args[i + 1]
             d == descr[i + 1]
         IN IF d.kind = "atom"
            THEN IF arg.kind # "atom" THEN NoMatch
                 ELSE matchNotation(stx, descr, i + 1, res, bdepth, fdepth, bvMap,
                                    fvMap, notations)
            ELSE IF arg.kind # "node" \/ arg.type # "term" THEN NoMatch
                 ELSE LET e == elabTerm(arg, bdepth, fdepth, bvMap, fvMap, notations)
                      IN IF IsErr(e) THEN e
                         ELSE matchNotation(stx, descr, i + 1, App(res, e), bdepth,
                                            fdepth, bvMap, fvMap, notations)

\* The notation loop, from notation k (1-based) on.
tryNotations(stx, k, bdepth, fdepth, bvMap, fvMap, notations) ==
    IF k > Len(notations) THEN Throw("Error", "not implemented")
    ELSE IF Len(notations[k].descr) # Len(stx.args)
         THEN tryNotations(stx, k + 1, bdepth, fdepth, bvMap, fvMap, notations)
    ELSE LET r == matchNotation(stx, notations[k].descr, 0, Const(notations[k].name),
                                bdepth, fdepth, bvMap, fvMap, notations)
         IN IF r.kind = "nomatch"
            THEN tryNotations(stx, k + 1, bdepth, fdepth, bvMap, fvMap, notations)
            ELSE r

elabTerm(stx, bdepth, fdepth, bvMap, fvMap, notations) ==
    IF stx.kind # "node" THEN Unreachable(stx)
    ELSE IF stx.type # "term" THEN Unreachable(stx)
    ELSE LET arg0 == Arg(stx, 0)
             arg1 == Arg(stx, 1)
             arg2 == Arg(stx, 2)
             arg3 == Arg(stx, 3)
             arg4 == Arg(stx, 4)
             arg5 == Arg(stx, 5)
         IN IF arg0.kind = "ident"
            THEN IF MapHas(bvMap, arg0.val) THEN BVar(bdepth - (bvMap[arg0.val] + 1))
                 ELSE IF MapHas(fvMap, arg0.val)
                      THEN FVar(fdepth - (fvMap[arg0.val] + 1))
                 ELSE Const(arg0.val)
            ELSE IF IsNode(arg0, "term") /\ IsNode(arg1, "term")
                 THEN LET ta == elabTerm(arg0, bdepth, fdepth, bvMap, fvMap, notations)
                          tb == elabTerm(arg1, bdepth, fdepth, bvMap, fvMap, notations)
                      IN IF IsErr(ta) THEN ta ELSE IF IsErr(tb) THEN tb ELSE App(ta, tb)
            ELSE IF /\ IsAtom(arg0, "\\") /\ arg1.kind = "ident" /\ IsAtom(arg2, ":")
                    /\ IsNode(arg3, "ty") /\ IsAtom(arg4, ",") /\ IsNode(arg5, "term")
                 THEN LET t == elabTerm(arg5, bdepth + 1, fdepth,
                                        MapSet(bvMap, arg1.val, bdepth), fvMap, notations)
                          ty == elabTy(arg3)
                      IN IF IsErr(t) THEN t ELSE IF IsErr(ty) THEN ty
                         ELSE Lam(arg1.val, ty, t)
            ELSE IF IsAtom(arg0, "(") /\ IsNode(arg1, "term") /\ IsAtom(arg2, ")")
                 THEN elabTerm(arg1, bdepth, fdepth, bvMap, fvMap, notations)
            ELSE tryNotations(stx, 1, bdepth, fdepth, bvMap, fvMap, notations)

\* xs.reduce((l, r, i) => l.set(r, fdepth + i), fvMap), from i (0-based) on.
RECURSIVE bindNames(_, _, _, _)
bindNames(fvMap, xs, fdepth, i) ==
    IF i >= Len(xs) THEN fvMap
    ELSE bindNames(MapSet(fvMap, xs[i + 1].val, fdepth + i), xs, fdepth, i + 1)

\* xs.reduceRight((l, r) => all(r, s, l), r), the names up to i being left.
RECURSIVE wrapAll(_, _, _, _)
wrapAll(xs, s, r, i) ==
    IF i = 0 THEN r ELSE wrapAll(xs, s, All(xs[i].val, s, r), i - 1)

RECURSIVE elabRule(_, _, _, _)
elabRule(stx, fdepth, fvMap, notations) ==
    IF stx.kind # "node" THEN Unreachable(stx)
    ELSE IF stx.type # "rule" THEN Unreachable(stx)
    ELSE LET arg0 == Arg(stx, 0)
             arg1 == Arg(stx, 1)
             arg2 == Arg(stx, 2)
             arg3 == Arg(stx, 3)
             arg4 == Arg(stx, 4)
             arg5 == Arg(stx, 5)
         IN IF IsNode(arg0, "term")
            THEN LET p == elabTerm(arg0, 0, fdepth, EmptyMap, fvMap, notations)
                 IN IF IsErr(p) THEN p ELSE Proves(p)
            ELSE IF /\ IsAtom(arg0, "!!") /\ IsNode(arg1, "many") /\ IsAtom(arg2, ":")
                    /\ IsNode(arg3, "ty") /\ IsAtom(arg4, ",") /\ IsNode(arg5, "rule")
                 THEN IF \E i \in 1..Len(arg1.args) : arg1.args[i].kind # "ident"
                      THEN Throw("Error", "unexpected syntax")
                      ELSE LET nextMap == bindNames(fvMap, arg1.args, fdepth, 0)
                               s == elabTy(arg3)
                               r == elabRule(arg5, fdepth + Len(arg1.args), nextMap,
                                             notations)
                           IN IF IsErr(s) THEN s ELSE IF IsErr(r) THEN r
                              ELSE wrapAll(arg1.args, s, r, Len(arg1.args))
            ELSE IF IsNode(arg0, "rule") /\ IsAtom(arg1, "=>") /\ IsNode(arg2, "rule")
                 THEN LET r1 == elabRule(arg0, fdepth, fvMap, notations)
                          r2 == elabRule(arg2, fdepth, fvMap, notations)
                      IN IF IsErr(r1) THEN r1 ELSE IF IsErr(r2) THEN r2
                         ELSE Implies(r1, r2)
            ELSE IF IsAtom(arg0, "(") /\ IsNode(arg1, "rule") /\ IsAtom(arg2, ")")
                 THEN elabRule(arg1, fdepth, fvMap, notations)
            ELSE Throw("Error", "unexpected syntax")

NdAtom(v) == [kind |-> "atom", val |-> v]
NdTerm(ty, prec) == [kind |-> "term", ty |-> ty, prec |-> prec]

\* elabNotation, the loop from stxs[i] (1-based) on; acc = [nd, pd, kw, ty].
RECURSIVE elabNotationFrom(_, _, _)
elabNotationFrom(stxs, i, acc) ==
    IF i > Len(stxs) THEN acc
    ELSE LET stx == stxs[i]
             arg0 == Arg(stx, 0)
             arg1 == Arg(stx, 1)
             arg2 == Arg(stx, 2)
         IN IF stx.kind # "node" THEN Unreachable(stx)
            ELSE IF stx.type # "notation" THEN Unreachable(stx)
            ELSE IF arg0.kind = "str"
                 THEN elabNotationFrom(stxs, i + 1,
                        [acc EXCEPT !.nd = Append(@, NdAtom(arg0.val)),
                                    !.pd = Append(@, DSymbol(arg0.val)),
                                    !.kw = Append(@, arg0.val)])
            ELSE IF IsNode(arg0, "ty") /\ IsAtom(arg1, ":") /\ arg2.kind = "num"
                 THEN With(elabTy(arg0), LAMBDA t :
                        IF IsErr(t) THEN t
                        ELSE elabNotationFrom(stxs, i + 1,
                               [acc EXCEPT !.nd = Append(@, NdTerm(t, arg2.val)),
                                           !.pd = Append(@, DRecurse("term", arg2.val)),
                                           !.ty = TArrow(t, @)]))
            ELSE UnexpectedSyntax(stx)

elabNotation(stxs, name, prec, base) ==
    With(elabNotationFrom(stxs, 1, [nd |-> <<>>, pd |-> <<>>, kw |-> <<>>, ty |-> base]),
         LAMBDA r :
      IF IsErr(r) THEN r
      ELSE [notation |-> [name |-> name, descr |-> r.nd],
            parser |-> Rule_(prec, r.pd), keywords |-> r.kw, ty |-> r.ty])

\* Map(g.fctx.toReversed().map(([n], i) => [n, i])), the pairs from i on.
RECURSIVE fvMapFrom(_, _, _)
fvMapFrom(fctx, i, m) ==
    IF i >= Len(fctx) THEN m
    ELSE fvMapFrom(fctx, i + 1, MapSet(m, fctx[Len(fctx) - i][1], i))
fvMapOf(fctx) == fvMapFrom(fctx, 0, EmptyMap)

\* elabTactic, the loop of the intro branch from name i (1-based) on.
RECURSIVE elabIntros(_, _, _)
elabIntros(ts1, names, i) ==
    IF i > Len(names) THEN ts1
    ELSE IF names[i].kind # "ident" THEN UnexpectedSyntax(names[i])
    ELSE With(intro(ts1, names[i].val), LAMBDA ts2 :
           IF IsErr(ts2) THEN ts2 ELSE elabIntros(ts2, names, i + 1))

\* elabTactic, the map over the arguments of apply from argument i on.
RECURSIVE elabApplyArgs(_, _, _, _, _)
elabApplyArgs(vs, i, g, fvMap, notations) ==
    IF i > Len(vs) THEN [xs |-> <<>>]
    ELSE LET v == vs[i]
         IN With(IF v.kind = "ident" THEN Str(v.val)
                 ELSE IF IsNode(v, "term")
                      THEN elabTerm(v, 0, Len(g.fctx), EmptyMap, fvMap, notations)
                 ELSE UnexpectedSyntax(v), LAMBDA x :
              IF IsErr(x) THEN x
              ELSE With(elabApplyArgs(vs, i + 1, g, fvMap, notations), LAMBDA rest :
                     IF IsErr(rest) THEN rest ELSE [xs |-> Cons(x, rest.xs)]))

elabTactic(t, stx, notations) ==
    IF stx.kind # "node" THEN Unreachable(stx)
    ELSE IF stx.type # "tactic" THEN Unreachable(stx)
    ELSE LET arg0 == Arg(stx, 0)
             arg1 == Arg(stx, 1)
             arg2 == Arg(stx, 2)
             arg3 == Arg(stx, 3)
         IN IF IsAtom(arg0, "assum") THEN assumption(t)
            ELSE IF IsAtom(arg0, "intro") /\ IsNode(arg1, "many")
                 THEN elabIntros(t, arg1.args, 1)
            ELSE IF IsAtom(arg0, "apply") /\ arg1.kind = "ident" /\ IsNode(arg2, "many")
                 THEN With(getGoal(t), LAMBDA g :
                        IF IsErr(g) THEN g
                        ELSE With(elabApplyArgs(arg2.args, 1, g, fvMapOf(g.fctx), notations),
                                  LAMBDA xs :
                               IF IsErr(xs) THEN xs ELSE apply(t, arg1.val, xs.xs)))
            ELSE IF /\ IsAtom(arg0, "have") /\ arg1.kind = "ident" /\ IsAtom(arg2, ":")
                    /\ IsNode(arg3, "rule")
                 THEN With(getGoal(t), LAMBDA g :
                        IF IsErr(g) THEN g
                        ELSE With(elabRule(arg3, Len(g.fctx), fvMapOf(g.fctx), notations),
                                  LAMBDA r :
                               IF IsErr(r) THEN r ELSE have(t, arg1.val, r)))
            ELSE UnexpectedSyntax(stx)

\* List.sortBy(({ prec }) => -prec), a stable sort: insertSorted puts x
\* behind every element whose key is not greater.
RECURSIVE insertSorted(_, _)
insertSortedUnstable(sorted, x) ==
    IF Len(sorted) = 0 THEN <<x>>
    ELSE IF (0 - Head(sorted).prec) < (0 - x.prec)
         THEN Cons(Head(sorted), insertSorted(Tail(sorted), x))
    ELSE Cons(x, sorted)

insertSorted(sorted, x) ==
    IF Len(sorted) = 0 THEN <<x>>
    ELSE IF (0 - Head(sorted).prec) <= (0 - x.prec)
         THEN Cons(Head(sorted), insertSorted(Tail(sorted), x))
    ELSE Cons(x, sorted)
RECURSIVE sortByFrom(_, _, _)
sortByFrom(list, i, sorted) ==
    IF i > Len(list) THEN sorted
    ELSE sortByFrom(list, i + 1, insertSorted(sorted, list[i]))
sortBy(list) == sortByFrom(list, 1, <<>>)

\* elabCommand, the loop of the prove branch over the tactic script.
RECURSIVE elabTactics(_, _, _, _)
elabTactics(t, tacs, i, notations) ==
    IF i > Len(tacs) THEN t
    ELSE With(elabTactic(t, tacs[i], notations), LAMBDA t2 :
           IF IsErr(t2) THEN t2 ELSE elabTactics(t2, tacs, i + 1, notations))

(***************************************************************************)
(* elabCommand, `prove` branch, around the loop over the tactic script:    *)
(* elabProveBegin is what runs before the loop (given the elaborated rule),*)
(* elabProveEnd what runs after it.                                        *)
(***************************************************************************)
elabProveBegin(cs, name, r) ==
    IF MapHas(cs.axioms, name)
    THEN Throw("Error", "'" \o name \o "' is already declared")
    ELSE With(isWF(MCtxDefault, cs.constants, <<>>, r), LAMBDA wf :
           IF IsErr(wf) THEN wf
           ELSE IF ~wf.val
                THEN Throw("Error", "rule '" \o name \o "' is not well-formed")
           ELSE LET ts1 == [goals |-> <<>>, axioms |-> cs.axioms, proofs |-> EmptyMap,
                            cctx |-> cs.constants, mctx |-> MCtxDefault]
                IN With(mkHole(ts1, r, <<>>, <<>>), LAMBDA h :
                     [ts |-> [h[1] EXCEPT !.goals = <<h[3]>>], hole |-> h[2]]))

RECURSIVE VariablesReport(_, _)
VariablesReport(fctx, i) ==
    IF i = 0 THEN ""
    ELSE "\t" \o fctx[i][1] \o " : " \o TyToString(fctx[i][2], FALSE) \o "\n"
           \o VariablesReport(fctx, i - 1)

RECURSIVE HypothesisReport(_, _, _)
HypothesisReport(ctx, fctx, i) ==
    IF i > Len(ctx) THEN ""
    ELSE "\t" \o ctx[i][1] \o " : " \o RuleToString(ctx[i][2], fctx, 0) \o "\n"
           \o HypothesisReport(ctx, fctx, i + 1)

RECURSIVE GoalsReport(_, _)
GoalsReport(goals, i) ==
    IF i > Len(goals) THEN ""
    ELSE LET g == goals[i]
         IN "case " \o g.holeId \o "\n"
              \o "\nVariables:\n" \o VariablesReport(g.fctx, Len(g.fctx))
              \o "\nHypothesis:\n" \o HypothesisReport(g.ctx, g.fctx, 1)
              \o "\nGoal: " \o RuleToString(g.target, g.fctx, 0)
              \o GoalsReport(goals, i + 1)

elabProveEndUnchecked(cs, name, r, t) ==
    [cs EXCEPT !.axioms = MapSet(cs.axioms, name, r)]

elabProveEnd(cs, name, r, t) ==
    IF Len(t.goals) # 0
    THEN Throw("Error", "unsolved goals\n" \o GoalsReport(t.goals, 1))
    ELSE [cs EXCEPT !.axioms = MapSet(cs.axioms, name, r)]

\* elabCommand, the notation branch.
elabNotationCommand(cs, stx) ==
    LET arg2 == Arg(stx, 2)
        arg3 == Arg(stx, 3)
        arg5 == Arg(stx, 5)
        arg7 == Arg(stx, 7)
        ps == IF MapHas(cs.parsers, "term") THEN cs.parsers["term"] ELSE <<>>
    IN IF MapHas(cs.constants, arg7.val)
       THEN Throw("Error", "constant '" \o arg7.val \o "' is already declared")
       ELSE With(elabTy(arg5), LAMBDA base :
         IF IsErr(base) THEN base
         ELSE With(elabNotation(arg3.args, arg7.val, arg2.val, base), LAMBDA n :
           IF IsErr(n) THEN n
           ELSE [cs EXCEPT
                   !.notations = Append(cs.notations, n.notation),
                   !.parsers = MapSet(cs.parsers, "term", sortBy(Append(ps, n.parser))),
                   !.trie = insertAll(cs.trie, n.keywords, 1),
                   !.constants = MapSet(cs.constants, arg7.val, n.ty)]))

elabAxiomCommandUnchecked(cs, stx) ==
    LET arg1 == Arg(stx, 1)
        arg3 == Arg(stx, 3)
    IN With(elabRule(arg3, 0, EmptyMap, cs.notations), LAMBDA r :
         IF IsErr(r) THEN r
         ELSE With(isWF(MCtxDefault, cs.constants, <<>>, r), LAMBDA wf :
           IF IsErr(wf) THEN wf
           ELSE IF ~wf.val
                THEN Throw("Error", "rule '" \o arg1.val \o "' is not well-formed")
           ELSE [cs EXCEPT !.axioms = MapSet(cs.axioms, arg1.val, r)]))

elabAxiomCommandNotWF(cs, stx) ==
    LET arg1 == Arg(stx, 1)
        arg3 == Arg(stx, 3)
    IN IF MapHas(cs.axioms, arg1.val)
       THEN Throw("Error", "'" \o arg1.val \o "' is already declared")
       ELSE With(elabRule(arg3, 0, EmptyMap, cs.notations), LAMBDA r :
         IF IsErr(r) THEN r
         ELSE With(isWF(MCtxDefault, cs.constants, <<>>, r), LAMBDA wf :
           IF IsErr(wf) \/ ~wf.val
           THEN Throw("Error", "rule '" \o arg1.val \o "' is not well-formed")
           ELSE [cs EXCEPT !.axioms = MapSet(cs.axioms, arg1.val, r)]))

\* elabCommand, the axiom branch.
elabAxiomCommand(cs, stx) ==
    LET arg1 == Arg(stx, 1)
        arg3 == Arg(stx, 3)
    IN IF MapHas(cs.axioms, arg1.val)
       THEN Throw("Error", "'" \o arg1.val \o "' is already declared")
       ELSE With(elabRule(arg3, 0, EmptyMap, cs.notations), LAMBDA r :
         IF IsErr(r) THEN r
         ELSE With(isWF(MCtxDefault, cs.constants, <<>>, r), LAMBDA wf :
           IF IsErr(wf) THEN wf
           ELSE IF ~wf.val
                THEN Throw("Error", "rule '" \o arg1.val \o "' is not well-formed")
           ELSE [cs EXCEPT !.axioms = MapSet(cs.axioms, arg1.val, r)]))

\* elabCommand, the prove branch.
elabProveCommand(cs, stx) ==
    LET arg1 == Arg(stx, 1)
        arg3 == Arg(stx, 3)
        arg5 == Arg(stx, 5)
    IN IF MapHas(cs.axioms, arg1.val)
       THEN Throw("Error", "'" \o arg1.val \o "' is already declared")
       ELSE With(elabRule(arg3, 0, EmptyMap, cs.notations), LAMBDA r :
         IF IsErr(r) THEN r
         ELSE With(elabProveBegin(cs, arg1.val, r), LAMBDA b :
           IF IsErr(b) THEN b
           ELSE With(elabTactics(b.ts, arg5.args, 1, cs.notations), LAMBDA t :
             IF IsErr(t) THEN t ELSE elabProveEnd(cs, arg1.val, r, t))))

elabCommand(cs, stx) ==
    IF stx.kind # "node" THEN Unreachable(stx)
    ELSE IF stx.type # "command" THEN Unreachable(stx)
    ELSE LET arg0 == Arg(stx, 0)
             arg1 == Arg(stx, 1)
             arg2 == Arg(stx, 2)
             arg3 == Arg(stx, 3)
             arg4 == Arg(stx, 4)
             arg5 == Arg(stx, 5)
             arg6 == Arg(stx, 6)
             arg7 == Arg(stx, 7)
         IN IF /\ IsAtom(arg0, "notation") /\ IsAtom(arg1, ":") /\ arg2.kind = "num"
               /\ IsNode(arg3, "many") /\ IsAtom(arg4, ":") /\ IsNode(arg5, "ty")
               /\ IsAtom(arg6, ":=") /\ arg7.kind = "ident"
            THEN elabNotationCommand(cs, stx)
            ELSE IF /\ IsAtom(arg0, "axiom") /\ arg1.kind = "ident" /\ IsAtom(arg2, ":")
                    /\ IsNode(arg3, "rule")
                 THEN elabAxiomCommand(cs, stx)
            ELSE IF /\ IsAtom(arg0, "prove") /\ arg1.kind = "ident" /\ IsAtom(arg2, ":")
                    /\ IsNode(arg3, "rule") /\ IsAtom(arg4, "by") /\ IsNode(arg5, "many")
                 THEN elabProveCommand(cs, stx)
            ELSE UnexpectedSyntax(stx)

(***************************************************************************)
(* TacSpec: one `prove` command, elaborated step by step.  The CoreState   *)
(* it starts from is the one the driver reaches on TacPrelude: constants   *)
(* p, q : Prop, P : T -> Prop, c : T and the axioms ax : !! x : T, P x,    *)
(* mp : p => q and ax3 : !! x : T, P x => P x => q.  The rule, the theorem *)
(* name and every tactic with its arguments are inputs.                    *)
(***************************************************************************)
MaxTactics == 4

tyProp == TBase("Prop")
tyT == TBase("T")
tp == Proves(Const("p"))
tq == Proves(Const("q"))
tP(x) == Proves(App(Const("P"), x))

RECURSIVE JoinLines(_, _)
JoinLines(lines, i) ==
    IF i > Len(lines) THEN ""
    ELSE lines[i] \o (IF i < Len(lines) THEN "\n" ELSE "") \o JoinLines(lines, i + 1)

\* The driver loop run to its end on a script: the CoreState it ends with.
RECURSIVE runDriver(_, _)
runDriver(cs, stream) ==
    With(parse(stream, "command", cs.parsers, cs.trie, 0), LAMBDA p :
      IF ~p.success THEN cs
      ELSE With(elabCommand(cs, p.val), LAMBDA res :
             IF IsErr(res) THEN cs ELSE runDriver(res, p.rest)))

TacPrelude ==
    << "notation : 1024 \"$p\" : Prop := p",
       "notation : 1024 \"$q\" : Prop := q",
       "notation : 1024 \"$P\" T:1024 : Prop := P",
       "notation : 1024 \"$c\" : T := c",
       "axiom ax : !! x : T , P x",
       "axiom mp : p => q" >>

TacPrelude2 == << "axiom ax3 : !! x : T , P x => P x => q" >>

TacCoreState1 == runDriver(defaultCoreState, createTokenStream(JoinLines(TacPrelude, 1)))

TacCoreState == runDriver(TacCoreState1, createTokenStream(JoinLines(TacPrelude2, 1)))

\* !! x : T, P x => !! y : T, P y
tXY == All("x", tyT, Implies(tP(FVar(0)), All("y", tyT, tP(FVar(0)))))

\* (!! z : Prop, p) => !! y : T, p
tZY == Implies(All("z", tyProp, tp), All("y", tyT, tp))

TacNames == {"t1", "ax"}
TacRules ==
    { Implies(tp, tp),
      tXY,
      tZY,
      Implies(tP(Const("c")), tq),
      Implies(tp, Implies(tp, tp)),
      Implies(tp, tq),
      All("y", tyT, tP(FVar(0))),
      tP(Const("c")),
      Proves(Const("P")),
      Proves(Const("zz")) }
TacIntroNames == {"h1", "h2", "y"}
TacApplyNames == {"h1", "h2", "h3", "ax", "mp", "ax3"}
TacApplyArgs == { <<>>, <<Str("h1")>>, <<Str("y")>>, <<Const("c")>> }
TacHaveNames == {"h3"}
TacHaveRules == { tp }

NoStream == [text |-> "", index |-> 0]
Step(tac, name, args, rule) == [tac |-> tac, name |-> name, args |-> args, rule |-> rule]

InitTac ==
    /\ state = TacCoreState
    /\ st = NoStream
    /\ out = ""
    /\ pc = "command"
    /\ ts = Null
    /\ cmd = Null
    /\ last = Step("none", "", <<>>, Null)

\* elabCommand throws: the driver returns the message, the CoreState it
\* holds is the one before the command.
Raise(e) ==
    /\ pc' = "failed"
    /\ out' = e.message
    /\ UNCHANGED <<state, st, ts, cmd>>

ProveBegin(name, r) ==
    /\ pc = "command"
    /\ last' = Step("prove", name, <<>>, r)
    /\ With(elabProveBegin(state, name, r), LAMBDA b :
         IF IsErr(b) THEN Raise(b)
         ELSE /\ ts' = b.ts
              /\ cmd' = [name |-> name, r |-> r, root |-> b.hole, n |-> 0]
              /\ pc' = "tactics"
              /\ UNCHANGED <<state, st, out>>)

\* One iteration of the loop over the tactic script.
RunTactic(res) ==
    /\ pc = "tactics"
    /\ cmd.n < MaxTactics
    /\ IF IsErr(res) THEN Raise(res)
       ELSE /\ ts' = res
            /\ cmd' = [cmd EXCEPT !.n = @ + 1]
            /\ UNCHANGED <<state, st, out, pc>>

TacAssumption ==
    /\ pc = "tactics"
    /\ last' = Step("assum", "", <<>>, Null)
    /\ RunTactic(assumption(ts))

TacIntro(name) ==
    /\ pc = "tactics"
    /\ last' = Step("intro", name, <<>>, Null)
    /\ RunTactic(intro(ts, name))

TacApply(name, args) ==
    /\ pc = "tactics"
    /\ last' = Step("apply", name, args, Null)
    /\ RunTactic(apply(ts, name, args))

TacHave(name, r) ==
    /\ pc = "tactics"
    /\ last' = Step("have", name, <<>>, r)
    /\ RunTactic(have(ts, name, r))

ProveEnd ==
    /\ pc = "tactics"
    /\ last' = Step("qed", cmd.name, <<>>, Null)
    /\ With(elabProveEnd(state, cmd.name, cmd.r, ts), LAMBDA res :
         IF IsErr(res) THEN Raise(res)
         ELSE /\ state' = res
              /\ pc' = "done"
              /\ UNCHANGED <<st, out, ts, cmd>>)

NextTac ==
    \/ \E name \in TacNames, r \in TacRules : ProveBegin(name, r)
    \/ TacAssumption
    \/ \E name \in TacIntroNames : TacIntro(name)
    \/ \E name \in TacApplyNames, args \in TacApplyArgs : TacApply(name, args)
    \/ \E name \in TacHaveNames, r \in TacHaveRules : TacHave(name, r)
    \/ ProveEnd

TacSpec == InitTac /\ [][NextTac]_vars

(***************************************************************************)
(* index.tsx, the driver: parse a command, elaborate it, repeat.  One      *)
(* action is one iteration of the loop.  The script is a sequence of at    *)
(* most MaxCommands commands, each on a line of its own.                   *)
(***************************************************************************)
MaxCommands == 4

DriverCommands ==
    { "notation : 1024 \"Prop\" : ty := Prop",
      "notation : 1024 \"p\" : Prop := p",
      "axiom ax1 : p",
      "prove t1 : p by apply ax1",
      "notation : 1024 \"q\" : Prop := Q" }

Scripts(commands) ==
    { JoinLines(s, 1) : s \in UNION { [1..n -> commands] : n \in 0..MaxCommands } }

Iter(parse_, fatal, more, elab) ==
    [tac |-> "loop", parse |-> parse_, fatal |-> fatal, more |-> more, elab |-> elab]

InitDriver ==
    /\ state = defaultCoreState
    /\ st \in { createTokenStream(text) : text \in Scripts(DriverCommands) }
    /\ out = ""
    /\ pc = "loop"
    /\ ts = Null
    /\ cmd = Null
    /\ last = Step("none", "", <<>>, Null)

loopExitNoPeek(p, token) == IF p.fatal THEN p.reason ELSE "all good"

\* What the driver returns when the parse of a command fails.
loopExit(p, token) == IF p.fatal \/ token # Undefined THEN p.reason ELSE "all good"

DriverParsedNoAdvance(p, token) ==
    IF ~p.success
    THEN /\ out' = loopExit(p, token)
         /\ pc' = "returned"
         /\ cmd' = Null
         /\ last' = Iter("failed", p.fatal, token # Undefined, "none")
         /\ UNCHANGED <<state, st, ts>>
    ELSE /\ cmd' = p.val
         /\ UNCHANGED <<st, ts>>
         /\ With(elabCommand(state, p.val), LAMBDA res :
               IF IsErr(res)
               THEN /\ out' = res.message
                    /\ pc' = "returned"
                    /\ last' = Iter("ok", FALSE, token # Undefined, "error")
                    /\ UNCHANGED state
               ELSE /\ state' = res
                    /\ last' = Iter("ok", FALSE, token # Undefined, "ok")
                    /\ UNCHANGED <<out, pc>>)

\* The iteration, given the parse result p and the lookahead token.
DriverParsed(p, token) ==
    IF ~p.success
    THEN /\ out' = loopExit(p, token)
         /\ pc' = "returned"
         /\ cmd' = Null
         /\ last' = Iter("failed", p.fatal, token # Undefined, "none")
         /\ UNCHANGED <<state, st, ts>>
    ELSE /\ st' = p.rest
         /\ cmd' = p.val
         /\ UNCHANGED ts
         /\ With(elabCommand(state, p.val), LAMBDA res :
               IF IsErr(res)
               THEN /\ out' = res.message
                    /\ pc' = "returned"
                    /\ last' = Iter("ok", FALSE, token # Undefined, "error")
                    /\ UNCHANGED state
               ELSE /\ state' = res
                    /\ last' = Iter("ok", FALSE, token # Undefined, "ok")
                    /\ UNCHANGED <<out, pc>>)

DriverLoop ==
    /\ pc = "loop"
    /\ DriverParsed(parse(st, "command", state.parsers, state.trie, 0),
                    peek(st, state.trie))

NextDriver == DriverLoop

DriverSpec == InitDriver /\ [][NextDriver]_vars

(***************************************************************************)
(* parser.ts applied to fragments of scripts.  The stream stands at a      *)
(* token boundary of a fragment; an action applies parseRule, parse or     *)
(* parseArg there under the grammar and trie of a CoreState and records    *)
(* the call and its result; NextToken moves to the next boundary.          *)
(***************************************************************************)
ParseTexts ==
    { "axiom ax1 : ( p",
      "axiom axiom",
      "prove t : p by apply h ( x",
      "intro",
      "p ( q",
      "p ) => q",
      "\"\\q\" : 1",
      "!! x : T , P x",
      "notation : 0 \"a\" T : 1",
      "f ~ q" }

\* The CoreState after a prefix notation of precedence 0 is installed.
LowPrecCoreState ==
    runDriver(defaultCoreState,
              createTokenStream("notation : 0 \"~\" Prop:0 : Prop := neg"))

ParseStates == { defaultCoreState, TacCoreState, LowPrecCoreState }

ProbePrecs == { 0, 31 }

\* The ident, many, many1 and recurse descriptors of a grammar.
ProbeDescrs(parsers) ==
    UNION { UNION { { parsers[type][k].descr[j] :
                        j \in { i \in 1..Len(parsers[type][k].descr) :
                                  parsers[type][k].descr[i].kind
                                    \in {"ident", "many", "many1", "recurse"} } } :
                    k \in 1..Len(parsers[type]) } :
            type \in DOMAIN parsers }

Probe(op, arg, stream, res) == [op |-> op, arg |-> arg, stream |-> stream, res |-> res]

InitParse ==
    /\ state \in ParseStates
    /\ st \in { createTokenStream(text) : text \in ParseTexts }
    /\ out = ""
    /\ pc = "ready"
    /\ ts = Null
    /\ cmd = Null
    /\ last = Probe("none", Null, st, Null)

Probed(op, arg, res) ==
    /\ pc' = "probed"
    /\ last' = Probe(op, arg, st, res)
    /\ UNCHANGED <<state, st, out, ts, cmd>>

NextToken ==
    /\ peek(st, state.trie) # Undefined
    /\ st' = next(st, state.trie)
    /\ pc' = "ready"
    /\ last' = Probe("next", Null, st', Null)
    /\ UNCHANGED <<state, out, ts, cmd>>

ProbeRule ==
    /\ pc = "ready"
    /\ \E type \in DOMAIN state.parsers :
         \E k \in 1..Len(state.parsers[type]) :
           /\ isPrefixRule(state.parsers[type][k], type)
           /\ Probed("parseRule", state.parsers[type][k].descr,
                     parseRule(st, state.parsers[type][k].descr,
                               state.parsers, state.trie, Null))

ProbeParse ==
    /\ pc = "ready"
    /\ \E type \in DOMAIN state.parsers, minPrec \in ProbePrecs :
         Probed("parse", [type |-> type, minPrec |-> minPrec],
                parse(st, type, state.parsers, state.trie, minPrec))

ProbeArg ==
    /\ pc = "ready"
    /\ \E desc \in ProbeDescrs(state.parsers) :
         Probed("parseArg", desc, parseArg(st, desc, state.parsers, state.trie))

NextParse == NextToken \/ ProbeRule \/ ProbeParse \/ ProbeArg

ParseSpec == InitParse /\ [][NextParse]_vars

(***************************************************************************)
(* The driver on scripts that install prefix and infix notations and then  *)
(* use them.                                                               *)
(***************************************************************************)
NotationCommands ==
    { "notation : 1024 \"$p\" : Prop := p",
      "notation : 40 Prop:41 \"*\" Prop:40 : Prop := times",
      "notation : 0 Prop:1 \"+\" Prop:1 : Prop := plus",
      "notation : 40 Prop:41 \"-\" Prop:40 : Prop := minus",
      "axiom ax2 : $p + $p" }

InitNotation ==
    /\ state = defaultCoreState
    /\ st \in { createTokenStream(text) : text \in Scripts(NotationCommands) }
    /\ out = ""
    /\ pc = "loop"
    /\ ts = Null
    /\ cmd = Null
    /\ last = Step("none", "", <<>>, Null)

NotationSpec == InitNotation /\ [][NextDriver]_vars

(***************************************************************************)
(* The driver on scripts that declare a notation with term slots of        *)
(* different types and use it.                                             *)
(***************************************************************************)
SlotCommands ==
    { "notation : 1024 \"$c\" : T := c",
      "notation : 1024 \"$p\" : Prop := p",
      "notation : 1024 \"$f\" T:1024 Prop:1024 : Prop := f",
      "notation : 1024 \"$g\" Prop:1024 Prop:1024 : Prop := g",
      "axiom ax3 : $f $c $p" }

InitSlot ==
    /\ state = defaultCoreState
    /\ st \in { createTokenStream(text) : text \in Scripts(SlotCommands) }
    /\ out = ""
    /\ pc = "loop"
    /\ ts = Null
    /\ cmd = Null
    /\ last = Step("none", "", <<>>, Null)

SlotSpec == InitSlot /\ [][NextDriver]_vars

(***************************************************************************)
(* The driver, scheduled: the loop of index.tsx runs inside one call of    *)
(* the computed signal, so an iteration that can be taken is taken.  The   *)
(* scripts install a prefix and an infix notation and use them in an      *)
(* axiom and in a proof with several tactics.  Fairness is stated on the   *)
(* iteration as seen through pc and st: it is enabled exactly when         *)
(* pc = "loop", as NextDriver is, and every NextDriver step is one, since  *)
(* a failed iteration changes pc and a parsed command leaves a later rest. *)
(***************************************************************************)
LiveCommands ==
    { "notation : 1024 \"$p\" : Prop := p",
      "notation : 40 Prop:41 \"*\" Prop:40 : Prop := times",
      "axiom ax2 : $p * $p * $p",
      "prove t2 : $p => $p => $p by intro h1 h2 assum",
      "axiom ax4 : ( $p" }

InitLive ==
    /\ state = defaultCoreState
    /\ st \in { createTokenStream(text) : text \in Scripts(LiveCommands) }
    /\ out = ""
    /\ pc = "loop"
    /\ ts = Null
    /\ cmd = Null
    /\ last = Step("none", "", <<>>, Null)

Rests(stream) ==
    { [text |-> stream.text, index |-> i] : i \in stream.index..Len(stream.text) }

Iteration == pc = "loop" /\ pc' \in {"loop", "returned"} /\ st' \in Rests(st)

LiveSpec == InitLive /\ [][NextDriver]_vars /\ WF_<<pc, st>>(Iteration)

(***************************************************************************)
(* kernel.ts, Term.liftB / substB / liftF / substF applied to terms.  The  *)
(* inputs t, u, n, k are drawn at the start; an action applies a lift to   *)
(* t, or a substitution to t or to the term the lift returned.             *)
(***************************************************************************)
MaxIdx == 1

TermAtoms ==
    { BVar(i) : i \in 0..MaxIdx } \cup { FVar(i) : i \in 0..MaxIdx }
      \cup { Const("c"), MVar("_m0") }

TermsFlat ==
    TermAtoms \cup { App(a, b) : a \in TermAtoms, b \in TermAtoms }
              \cup { Lam("x", tyT, a) : a \in TermAtoms }

Terms ==
    TermsFlat \cup { Lam("z", tyT, a) : a \in TermsFlat }
              \cup { App(Lam("x", tyT, a), b) : a \in TermAtoms, b \in TermAtoms }

TermArgs == { FVar(0), BVar(0), Const("c"), Lam("x", tyT, FVar(0)) }

Applied(op, of, res) == [op |-> op, of |-> of, res |-> res]

InitTerm ==
    /\ state \in [t : Terms, u : TermArgs, n : 1..(MaxIdx + 1), k : 0..MaxIdx]
    /\ st = NoStream
    /\ out = ""
    /\ pc = "input"
    /\ ts = Null
    /\ cmd = Null
    /\ last = Applied("none", "none", Null)

TermStep(pc_, op, res) ==
    /\ pc' = pc_
    /\ last' = Applied(op, last.op, res)
    /\ UNCHANGED <<state, st, out, ts, cmd>>

LiftB == pc = "input" /\ TermStep("lifted", "liftB", liftB(state.t, state.n, state.k))

LiftF == pc = "input" /\ TermStep("lifted", "liftF", liftF(state.t, state.n, state.k))

SubstB ==
    \/ pc = "input" /\ TermStep("done", "substB", substB(state.t, state.u, state.k))
    \/ pc = "lifted" /\ TermStep("done", "substB", substB(last.res, state.u, state.k))

SubstF ==
    \/ pc = "input" /\ TermStep("done", "substF", TermSubstF(state.t, state.u, state.k))
    \/ pc = "lifted" /\ TermStep("done", "substF", TermSubstF(last.res, state.u, state.k))

NextTerm == LiftB \/ LiftF \/ SubstB \/ SubstF

TermSpec == InitTerm /\ [][NextTerm]_vars

(***************************************************************************)
(* kernel.ts, Rule.substF(r, u, 0) applied to rules, as Proof.check (allE) *)
(* and Tactic.applyArgs / applyCore apply it to the body of an `all`.      *)
(***************************************************************************)
SubstBodies ==
    { tP(FVar(i)) : i \in 0..2 }
      \cup { Proves(App(App(Const("R"), FVar(0)), FVar(1))),
             Proves(App(Const("P"), App(Lam("z", tyT, BVar(0)), FVar(0)))) }

SubstRules ==
    SubstBodies
      \cup { All("y", tyT, b) : b \in SubstBodies }
      \cup { All("y", tyT, All("z", tyT, b)) : b \in SubstBodies }
      \cup { Implies(tP(FVar(0)), All("y", tyT, b)) : b \in SubstBodies }

SubstArgs ==
    { FVar(0), FVar(1), Const("c"), MVar("_m0"), App(Const("g"), FVar(0)) }

InitRuleSubst ==
    /\ state \in [r : SubstRules, u : SubstArgs]
    /\ st = NoStream
    /\ out = ""
    /\ pc = "input"
    /\ ts = Null
    /\ cmd = Null
    /\ last = Applied("none", "none", Null)

RuleSubst ==
    /\ pc = "input"
    /\ pc' = "done"
    /\ last' = Applied("substF", "none", RuleSubstF(state.r, state.u, 0))
    /\ UNCHANGED <<state, st, out, ts, cmd>>

NextRuleSubst == RuleSubst

RuleSubstSpec == InitRuleSubst /\ [][NextRuleSubst]_vars

(***************************************************************************)
(* kernel.ts, the metavariable context.  `state` is the MCtx a tactic      *)
(* script threads: it starts as MCtx.default(), applyCore declares fresh   *)
(* metavariables, and Term.isDefEq and Rule.isDefEq are called on terms    *)
(* over the declared metavariables, the MCtx they return replacing the     *)
(* current one.                                                            *)
(***************************************************************************)
MaxMVars == 2

UnifyAtoms(mctx) == { Const("c") } \cup { MVar(m) : m \in DOMAIN mctx.types }

UnifyTerms(mctx) ==
    UnifyAtoms(mctx)
      \cup { App(Const("f"), a) : a \in UnifyAtoms(mctx) }
      \cup { App(MVar(m), Const("c")) : m \in DOMAIN mctx.types }
      \cup { App(Lam("x", tyT, BVar(0)), MVar(m)) : m \in DOMAIN mctx.types }

Unified(op, before, first, flag) ==
    [op |-> op, before |-> before, first |-> first, flag |-> flag]

Pair(d) == [mctx |-> d[1], flag |-> d[2]]

InitUnify ==
    /\ state = MCtxDefault
    /\ st = NoStream
    /\ out = ""
    /\ pc = "unify"
    /\ ts = Null
    /\ cmd = Null
    /\ last = Unified("none", MCtxDefault, Pair(<<MCtxDefault, FALSE>>), FALSE)

UnifyStep(op, mctx, first, flag) ==
    /\ state' = mctx
    /\ last' = Unified(op, state, first, flag)
    /\ UNCHANGED <<st, out, pc, ts, cmd>>

FreshMVar ==
    /\ state.counter < MaxMVars
    /\ UnifyStep("fresh", mkFreshMVar(state, tyT)[1], Pair(<<state, FALSE>>), TRUE)

\* Term.isDefEq(state, t1, t2); `first` is what the comparison of the
\* function parts returned when both sides are applications.
TermDefEq ==
    \E t1 \in UnifyTerms(state), t2 \in UnifyTerms(state) :
      With(TermIsDefEq(state, t1, t2), LAMBDA d :
        UnifyStep("term", d[1],
                  IF whnf(state, t1).kind = "app" /\ whnf(state, t2).kind = "app"
                  THEN Pair(TermIsDefEq(state, whnf(state, t1).fn, whnf(state, t2).fn))
                  ELSE Pair(<<state, FALSE>>),
                  d[2]))

\* Rule.isDefEq(state, a => b, c => d); `first` is what the comparison of
\* the premises returned.
RuleDefEq ==
    \E a \in UnifyAtoms(state), b \in UnifyAtoms(state),
       c \in UnifyAtoms(state), d \in { Const("c"), Const("f") } :
      With(RuleIsDefEq(state, Implies(Proves(a), Proves(b)),
                       Implies(Proves(c), Proves(d))), LAMBDA r :
        UnifyStep("rule", r[1], Pair(RuleIsDefEq(state, Proves(a), Proves(c))), r[2]))

NextUnify == FreshMVar \/ TermDefEq \/ RuleDefEq

UnifySpec == InitUnify /\ [][NextUnify]_vars

(***************************************************************************)
(* parser.ts, SeparatorTrie on its own.  `state` is a trie together with   *)
(* the words that were inserted into it; words are inserted one by one     *)
(* and matchLongest is applied to a text at every start position.          *)
(***************************************************************************)
TrieWords == { "", "=", "=>", "==", "=>>", ":", ":=" }

TrieTexts == { "", "x", "=", ":=", "=>x", "==>", "a=>>", "=>>=" }

Matched(op, text, start, res) ==
    [op |-> op, text |-> text, start |-> start, res |-> res]

InitTrie ==
    /\ state = [trie |-> EmptyMap, words |-> {}]
    /\ st = NoStream
    /\ out = ""
    /\ pc = "trie"
    /\ ts = Null
    /\ cmd = Null
    /\ last = Matched("none", "", 0, 0)

Insert ==
    \E word \in TrieWords :
      /\ state' = [trie |-> insert(state.trie, word),
                   words |-> state.words \cup {word}]
      /\ last' = Matched("insert", word, 0, 0)
      /\ UNCHANGED <<st, out, pc, ts, cmd>>

MatchLongest ==
    \E text \in TrieTexts :
      \E start \in 0..Len(text) :
        /\ last' = Matched("matchLongest", text, start,
                           matchLongest(state.trie, text, start))
        /\ UNCHANGED <<state, st, out, pc, ts, cmd>>

HasProbes == TrieWords \cup { "x", ">", "=>x", ":==" }

Has ==
    \E word \in HasProbes :
      /\ last' = Matched("has", word, 0, has(state.trie, word))
      /\ UNCHANGED <<state, st, out, pc, ts, cmd>>

NextTrie == Insert \/ MatchLongest \/ Has

TrieSpec == InitTrie /\ [][NextTrie]_vars

\* The completed proof object of the command and what the kernel makes of it.
RootProof == instHole(cmd.root, ts.proofs)
RootCheck == check(ts.mctx, ts.cctx, ts.axioms, <<>>, <<>>, RootProof)

\* Binder names are hints (identity is positional): rules are compared with
\* the names erased and the assigned metavariables instantiated.
RECURSIVE TermErase(_)
TermErase(t) ==
    CASE t.kind = "app" -> App(TermErase(t.fn), TermErase(t.arg))
      [] t.kind = "lam" -> Lam("", t.ty, TermErase(t.body))
      [] OTHER -> t
RECURSIVE RuleErase(_)
RuleErase(r) ==
    CASE r.kind = "proves" -> Proves(TermErase(r.p))
      [] r.kind = "implies" -> Implies(RuleErase(r.P), RuleErase(r.Q))
      [] r.kind = "all" -> All("", r.s, RuleErase(r.P))
SameRule(mctx, r1, r2) == RuleErase(RuleInstM(mctx, r1)) = RuleErase(RuleInstM(mctx, r2))

\* C1: whenever a prove command succeeds, the kernel check of the completed
\* proof object does not raise and returns the command's rule, up to
\* metavariable instantiation.
C1_ProofCheckSound ==
    pc = "done" =>
        /\ ~IsErr(RootCheck)
        /\ SameRule(ts.mctx, RootCheck, cmd.r)


RECURSIVE HasHole(_)
HasHole(p) ==
    CASE p.kind = "hole" -> TRUE
      [] p.kind = "impI" -> HasHole(p.hq)
      [] p.kind = "impE" -> HasHole(p.hpq) \/ HasHole(p.hp)
      [] p.kind = "allI" -> HasHole(p.h)
      [] p.kind = "allE" -> HasHole(p.h)
      [] OTHER -> FALSE

RECURSIVE HasHyp(_, _)
HasHyp(p, i) ==
    CASE p.kind = "hyp" -> p.idx = i
      [] p.kind = "impI" -> HasHyp(p.hq, i)
      [] p.kind = "impE" -> HasHyp(p.hpq, i) \/ HasHyp(p.hp, i)
      [] p.kind = "allI" -> HasHyp(p.h, i)
      [] p.kind = "allE" -> HasHyp(p.h, i)
      [] OTHER -> FALSE

\* A step in which the tactic named by last' ran and returned a state.
TacticSucceeded == pc = "tactics" /\ pc' = "tactics" /\ cmd'.n = cmd.n + 1

\* C3: a prove command inserts name |-> r into axioms only if the goal list
\* is empty once the script has run; if a goal remains, or a tactic raises
\* (NoGoals when it runs with no goal left), the command fails and the
\* CoreState is unchanged.
C3_ProveOnlyWhenSolved ==
    [][ /\ (state' # state =>
              /\ pc = "tactics" /\ last'.tac = "qed" /\ Len(ts.goals) = 0
              /\ state' = [state EXCEPT !.axioms = MapSet(state.axioms, cmd.name, cmd.r)])
        /\ (pc = "tactics" /\ last'.tac = "qed" /\ Len(ts.goals) # 0 =>
              pc' = "failed" /\ state' = state)
        /\ (pc = "tactics" /\ last'.tac \in {"assum", "intro", "apply", "have"}
              /\ Len(ts.goals) = 0 =>
              pc' = "failed" /\ out' = "no goals to solve" /\ state' = state)
        /\ (pc' = "failed" => state' = state /\ out' # "")
      ]_vars
C3_Witness == pc = "done" /\ cmd.n > 0 /\ MapHas(state.axioms, "t1")

\* C4: in every TacticState reached by successful tactics, the root proof
\* instantiated with proofs contains no hole iff goals is empty.
C4_ClosedIffNoGoals ==
    pc \in {"tactics", "done"} => (~HasHole(RootProof) <=> Len(ts.goals) = 0)
C4_Witness ==
    /\ pc = "tactics" /\ cmd.n >= 3 /\ Len(ts.goals) = 0
    /\ \E h \in DOMAIN ts.proofs : ts.proofs[h].kind = "impE"

\* C5: after have(name, r) put (name, r, h) in the main goal's ctx, a later
\* `apply` that uses that hypothesis records a proof term in which it is
\* hole(h), never hyp(idx).
C5_HaveHypAsHole ==
    [][ TacticSucceeded /\ last'.tac = "apply" =>
          LET g == ts.goals[1]
          IN \A i \in 1..Len(g.ctx) :
               g.ctx[i][3] # Null => ~HasHyp(ts'.proofs[g.holeId], i - 1)
      ]_vars

(***************************************************************************)
(* Claims about the driver (DriverSpec).                                   *)
(***************************************************************************)
\* The command the last iteration parsed, by its keyword.
IsCommand(stx, keyword) == stx.kind = "node" /\ IsAtom(Arg(stx, 0), keyword)

\* The head constant of an elaborated term.
RECURSIVE HeadConst(_)
HeadConst(t) == IF t.kind = "app" THEN HeadConst(t.fn) ELSE t

\* The notation's literals are the atoms of the node, position by position.
MatchesLiterally(n, stx) ==
    /\ Len(n.descr) = Len(stx.args)
    /\ \A i \in 1..Len(n.descr) :
          IF n.descr[i].kind = "atom" THEN IsAtom(stx.args[i], n.descr[i].val)
          ELSE IsNode(stx.args[i], "term")

\* The last iteration elaborated `axiom name : T` where the term T is a node
\* that the parser rule of some notation produced.
AxiomOfNotationTerm ==
    /\ pc = "loop" /\ last.tac = "loop" /\ last.elab = "ok"
    /\ IsCommand(cmd, "axiom")
    /\ IsNode(Arg(Arg(cmd, 3), 0), "term")
    /\ \E k \in 1..Len(state.notations) :
          MatchesLiterally(state.notations[k], Arg(Arg(cmd, 3), 0))

\* C2: a term that the parser rule of a notation N parsed elaborates to an
\* application of const(N.name): the head constant of the elaborated term is
\* the name of a notation whose literals are the atoms of the node, never
\* that of another notation that only has the same atom/term shape.
C2_NotationByLiteral ==
    AxiomOfNotationTerm =>
      LET stx == Arg(Arg(cmd, 3), 0)
          t == state.axioms[Arg(cmd, 1).val].p
      IN \E k \in 1..Len(state.notations) :
           /\ MatchesLiterally(state.notations[k], stx)
           /\ HeadConst(t) = Const(state.notations[k].name)

C6Script ==
    JoinLines(<< "notation : 1024 \"Prop\" : ty := Prop",
                 "notation : 1024 \"p\" : Prop := p",
                 "axiom ax1 : p",
                 "prove t1 : p by apply ax1" >>, 1)

\* C6: on the four-command script the driver processes all four commands
\* and returns "all good".
C6_ScriptAllGood ==
    (st.text = C6Script /\ pc = "returned") =>
      /\ out = "all good"
      /\ MapHas(state.constants, "Prop") /\ MapHas(state.constants, "p")
      /\ MapHas(state.axioms, "ax1") /\ MapHas(state.axioms, "t1")

\* C7: an iteration returns "all good" exactly when the parse of the command
\* failed non-fatally with no token left; a fatal parse failure, a failure
\* with a token left and an elaboration error return the failure's message;
\* the CoreState is then the one before the iteration, and nothing runs
\* after the driver returned.  The empty script returns "all good".
C7_DriverReturn ==
    [][ /\ pc = "loop"
        /\ (pc' = "returned" /\ out' = "all good")
             <=> (last'.parse = "failed" /\ ~last'.fatal /\ ~last'.more)
        /\ (last'.parse = "failed" /\ (last'.fatal \/ last'.more)) =>
              /\ pc' = "returned"
              /\ out' = parse(st, "command", state.parsers, state.trie, 0).reason
        /\ last'.elab = "error" =>
              /\ pc' = "returned"
              /\ out' = elabCommand(state, cmd').message
        /\ last'.elab = "ok" => pc' = "loop" /\ out' = "" /\ state' = elabCommand(state, cmd')
        /\ pc' = "returned" => state' = state
        /\ (st.text = "" => pc' = "returned" /\ out' = "all good") ]_vars

C7_Witness ==
    /\ pc = "returned" /\ out = "all good"
    /\ MapHas(state.axioms, "t1") /\ st.index = Len(st.text)

\* C10: declared names are write-once: a notation whose name is a constant
\* fails, an axiom or prove whose name is an axiom fails, and every later
\* CoreState maps a declared constant or axiom to the value it had.
C10_WriteOnce ==
    [][ /\ \A c \in DOMAIN state.constants :
               MapHas(state'.constants, c) /\ state'.constants[c] = state.constants[c]
        /\ \A n \in DOMAIN state.axioms :
               MapHas(state'.axioms, n) /\ state'.axioms[n] = state.axioms[n]
        /\ (IsCommand(cmd', "notation") /\ MapHas(state.constants, Arg(cmd', 7).val)) =>
              /\ pc' = "returned" /\ state' = state
              /\ out' = "constant '" \o Arg(cmd', 7).val \o "' is already declared"
        /\ ((IsCommand(cmd', "axiom") \/ IsCommand(cmd', "prove"))
               /\ MapHas(state.axioms, Arg(cmd', 1).val)) =>
              /\ pc' = "returned" /\ state' = state
              /\ out' = "'" \o Arg(cmd', 1).val \o "' is already declared" ]_vars

C10_Witness ==
    /\ pc = "returned" /\ out = "'ax1' is already declared"
    /\ IsCommand(cmd, "axiom")
    /\ MapHas(state.axioms, "ax1") /\ MapHas(state.constants, "p")

\* The first descriptor of descr, from position i on, whose parse fails: the
\* index the stream stood at and the failure, Null when every one succeeds.
RECURSIVE FirstFailure(_, _, _, _, _)
FirstFailure(stream, descr, i, parsers, trie) ==
    IF i >= Len(descr) THEN Null
    ELSE LET r == parseArg(stream, descr[i + 1], parsers, trie)
         IN IF r.success THEN FirstFailure(r.rest, descr, i + 1, parsers, trie)
            ELSE [index |-> stream.index, sub |-> r]

\* A failed rule reports its failing descriptor's reason, fatal exactly when
\* the sub-parse was fatal or the stream had left the rule's starting index.
RuleCommitted(stream, descr, i, res, parsers, trie) ==
    ~res.success =>
      LET f == FirstFailure(stream, descr, i, parsers, trie)
      IN /\ f # Null
         /\ res = Fail(f.sub.reason, f.sub.fatal \/ f.index # stream.index)

\* The first of the alternatives, from rule i on, that succeeds or fails
\* fatally, Null when every one fails without committing.
RECURSIVE FirstDecisive(_, _, _, _, _)
FirstDecisive(stream, rules, i, parsers, trie) ==
    IF i > Len(rules) THEN Null
    ELSE LET r == parseRule(stream, rules[i].descr, parsers, trie, Null)
         IN IF r.success \/ r.fatal THEN [i |-> i, res |-> r]
            ELSE FirstDecisive(stream, rules, i + 1, parsers, trie)

\* The first application of an infix rule that fails while left is being
\* extended, Null when the extension ends without a failure.
RECURSIVE InfixFailure(_, _, _, _, _, _, _)
InfixFailure(left, stream, type, infixRules, parsers, trie, minPrec) ==
    LET token == peek(stream, trie)
        rule == selectInfix(infixRules, 1, token, minPrec)
        r == parseRule(stream, rule.descr, parsers, trie, left)
    IN IF token = Undefined \/ rule = Null THEN Null
       ELSE IF r.success
            THEN InfixFailure(SNode(type, r.args), r.rest, type, infixRules,
                              parsers, trie, minPrec)
       ELSE [stream |-> stream, descr |-> rule.descr, res |-> r]

\* parse returns the fatal failure of an alternative or of an infix rule as
\* it is, and neither tries a later alternative nor succeeds.
ParseCommitted(stream, type, minPrec, res, parsers, trie) ==
    LET allRules == IF MapHas(parsers, type) THEN parsers[type] ELSE <<>>
        IsPrefix(rule) == isPrefixRule(rule, type)
        IsInfix(rule) == ~isPrefixRule(rule, type)
        d == FirstDecisive(stream, SelectSeq(allRules, IsPrefix), 1, parsers, trie)
        f == InfixFailure(SNode(type, d.res.args), d.res.rest, type,
                          SelectSeq(allRules, IsInfix), parsers, trie, minPrec)
    IN IF d = Null THEN ~res.success /\ ~res.fatal
       ELSE IF ~d.res.success THEN res = d.res
       ELSE IF f = Null THEN res.success
       ELSE /\ RuleCommitted(f.stream, f.descr, 1, f.res, parsers, trie)
            /\ IF f.res.fatal THEN res = f.res ELSE res.success

\* The first item of a many / many1 loop whose parse fails.
RECURSIVE ItemFailure(_, _, _, _)
ItemFailure(stream, rule, parsers, trie) ==
    LET r == parseArg(stream, rule, parsers, trie)
    IN IF r.success THEN ItemFailure(r.rest, rule, parsers, trie)
       ELSE [stream |-> stream, res |-> r]

\* many and many1 return the fatal failure of an item as it is; many1 also
\* returns the failure of its first item; otherwise the loop ends well.
ManyCommitted(stream, desc, res, parsers, trie) ==
    LET f == ItemFailure(stream, desc.rule, parsers, trie)
    IN IF f.res.fatal \/ (desc.kind = "many1" /\ f.stream = stream)
       THEN res = f.res
       ELSE res.success

\* C8: committed choice.  A rule whose descriptor fails after the stream
\* index has left the index the rule started at fails with fatal = true; a
\* rule that fails before that is fatal only when the sub-parse was; and the
\* alternatives of parse, its infix loop, many, many1 and recurse return a
\* fatal failure unchanged instead of trying an alternative or succeeding.
C8_CommittedChoice ==
    /\ last.op = "parseRule" =>
         RuleCommitted(last.stream, last.arg, 0, last.res, state.parsers, state.trie)
    /\ last.op = "parse" =>
         ParseCommitted(last.stream, last.arg.type, last.arg.minPrec, last.res,
                        state.parsers, state.trie)
    /\ (last.op = "parseArg" /\ last.arg.kind = "recurse") =>
         ParseCommitted(last.stream, last.arg.type, last.arg.prec, last.res,
                        state.parsers, state.trie)
    /\ (last.op = "parseArg" /\ last.arg.kind \in {"many", "many1"}) =>
         ManyCommitted(last.stream, last.arg, last.res, state.parsers, state.trie)

\* parse has returned the fatal failure of an alternative that is not its
\* last one: the rule had consumed a token when a descriptor failed, and
\* that sub-parse was not fatal by itself.
C8_Witness ==
    /\ last.op = "parse"
    /\ ~last.res.success
    /\ last.res.fatal
    /\ LET type == last.arg.type
           IsPrefix(rule) == isPrefixRule(rule, type)
           prefixRules == SelectSeq(state.parsers[type], IsPrefix)
           d == FirstDecisive(last.stream, prefixRules, 1, state.parsers, state.trie)
           f == FirstFailure(last.stream, prefixRules[d.i].descr, 0,
                             state.parsers, state.trie)
       IN /\ d # Null
          /\ d.i < Len(prefixRules)
          /\ d.res = last.res
          /\ f.index # last.stream.index
          /\ ~f.sub.fatal


\* The literals of a parser rule that a notation installed.
RuleLiterals(rule) ==
    { rule.descr[j].val : j \in { i \in 1..Len(rule.descr) : rule.descr[i].kind = "symbol" } }

\* The rule at position k of the term rules is selected by the infix loop
\* on a lookahead equal to its second-descriptor symbol, for minPrec up to
\* its precedence.
InfixRuleTried(cs, k) ==
    LET rule == cs.parsers["term"][k]
        IsInfix(r) == ~isPrefixRule(r, "term")
        infixRules == SelectSeq(cs.parsers["term"], IsInfix)
    IN \A minPrec \in {0, rule.prec} :
         selectInfix(infixRules, 1, rule.descr[2].val, minPrec) = rule

\* The rule at position k of the term rules is reached by the prefix loop
\* on a lookahead equal to its leading symbol: no rule before it succeeds
\* or fails fatally there.
PrefixRuleTried(cs, k) ==
    LET rule == cs.parsers["term"][k]
        IsPrefix(r) == isPrefixRule(r, "term")
        before == SelectSeq(SubSeq(cs.parsers["term"], 1, k - 1), IsPrefix)
    IN FirstDecisive(createTokenStream(rule.descr[1].val), before, 1,
                     cs.parsers, cs.trie) = Null

\* C9: once a notation is installed, (a) each of its literals is in the trie
\* and is the token read where it is the longest separator match at a token
\* start, and (b) its parser rule is tried by parse("term", minPrec) for
\* every minPrec up to its precedence when its leading symbol (prefix rule)
\* or its second-descriptor symbol (infix rule) is the lookahead.
C9_NotationParticipates ==
    \A k \in 1..Len(state.parsers["term"]) :
      LET rule == state.parsers["term"][k]
      IN (\A j \in 1..Len(defaultParsers["term"]) : defaultParsers["term"][j] # rule) =>
           /\ \A L \in RuleLiterals(rule) :
                /\ has(state.trie, L)
                /\ matchLongest(state.trie, L, 0) = Len(L)
                     => peek(createTokenStream(L), state.trie) = L
           /\ IF isPrefixRule(rule, "term")
              THEN rule.descr[1].kind = "symbol" => PrefixRuleTried(state, k)
              ELSE rule.descr[2].kind = "symbol" => InfixRuleTried(state, k)

\* The types of the term slots of a notation, in source order.
SlotTypes(descr) ==
    LET IsTerm(d) == d.kind = "term"
        slots == SelectSeq(descr, IsTerm)
    IN [i \in 1..Len(slots) |-> slots[i].ty]

\* const(name) applied to a_1 .. a_n in source order, a_i the free variable
\* i - 1.
RECURSIVE UseOf(_, _)
UseOf(name, n) == IF n = 0 THEN Const(name) ELSE App(UseOf(name, n - 1), FVar(n - 1))

\* C11: the constant a notation command declares has the term slots curried
\* in source order with baseTy as the result, so the use of the notation,
\* const(name) a_1 .. a_n with a_i of the i-th slot's type, has type baseTy.
C11_NotationConstCurried ==
    (pc = "loop" /\ cmd # Null /\ IsCommand(cmd, "notation") /\ last.elab = "ok") =>
      LET n == state.notations[Len(state.notations)]
          tys == SlotTypes(n.descr)
          fctx == [i \in 1..Len(tys) |-> <<"a", tys[i]>>]
      IN inferType(MCtxDefault, state.constants, fctx, <<>>, UseOf(n.name, Len(tys)))
           = elabTy(Arg(cmd, 5))

\* The step is a successful intro on a goal whose target has the given kind.
IntroStep(kind) ==
    /\ pc = "tactics" /\ pc' = "tactics"
    /\ last'.tac = "intro"
    /\ cmd'.n = cmd.n + 1
    /\ ts.goals[1].target.kind = kind

\* The hypotheses of a goal as replaceGoal leaves them.
InstCtx(mctx, ctx) ==
    [j \in 1..Len(ctx) |-> <<ctx[j][1], RuleInstM(mctx, ctx[j][2]), ctx[j][3]>>]

RECURSIVE FlatLiftF(_, _, _)
FlatLiftF(t, n, k) ==
    CASE t.kind = "fvar" -> IF t.idx < k THEN t ELSE FVar(t.idx + n)
      [] t.kind = "app" -> App(FlatLiftF(t.fn, n, k), FlatLiftF(t.arg, n, k))
      [] t.kind = "lam" -> Lam(t.name, t.ty, FlatLiftF(t.body, n, k))
      [] OTHER -> t

\* C13: liftF(t, n, k) adds n to every fvar(i) with i >= k, under lam too
\* (the cutoff does not change under a lam), and leaves everything else.
C13_LiftFFlat ==
    last.op = "liftF" => last.res = FlatLiftF(state.t, state.n, state.k)

\* C14: lift-then-substitute is the identity for both kinds of index:
\* substB(liftB(t, 1, k), u, k) = t and substF(liftF(t, 1, k), u, k) = t.
C14_LiftSubstIdentity ==
    /\ (last.op = "substB" /\ last.of = "liftB" /\ state.n = 1) => last.res = state.t
    /\ (last.op = "substF" /\ last.of = "liftF" /\ state.n = 1) => last.res = state.t

\* The precedence of the last infix rule applied while left is extended,
\* prec when none is applied.
RECURSIVE LastInfixPrec(_, _, _, _, _, _, _, _)
LastInfixPrec(left, stream, type, infixRules, parsers, trie, minPrec, prec) ==
    LET token == peek(stream, trie)
        rule == selectInfix(infixRules, 1, token, minPrec)
        r == parseRule(stream, rule.descr, parsers, trie, left)
    IN IF token = Undefined \/ rule = Null THEN prec
       ELSE IF r.success
            THEN LastInfixPrec(SNode(type, r.args), r.rest, type, infixRules,
                               parsers, trie, minPrec, rule.prec)
       ELSE prec

\* The precedence of the outermost rule of the node a successful parse
\* returns: the prefix rule's, or the last applied infix rule's.
OutermostPrec(stream, type, minPrec, parsers, trie) ==
    LET IsPrefix(rule) == isPrefixRule(rule, type)
        IsInfix(rule) == ~isPrefixRule(rule, type)
        prefixRules == SelectSeq(parsers[type], IsPrefix)
        d == FirstDecisive(stream, prefixRules, 1, parsers, trie)
    IN LastInfixPrec(SNode(type, d.res.args), d.res.rest, type,
                     SelectSeq(parsers[type], IsInfix), parsers, trie, minPrec,
                     prefixRules[d.i].prec)

\* C15: when parse(stream, T, parsers, trie, k) succeeds, the outermost rule
\* that formed the node has prec >= k, also when it is a prefix notation.
C15_FormedAtPrec ==
    (last.op = "parse" /\ last.res.success) =>
      OutermostPrec(last.stream, last.arg.type, last.arg.minPrec,
                    state.parsers, state.trie) >= last.arg.minPrec

\* C16: the ident descriptor never yields a token the trie recognizes, nor
\* one that starts with a decimal digit or a double quote.
C16_IdentToken ==
    (last.op = "parseArg" /\ last.arg.kind = "ident" /\ last.res.success) =>
      /\ last.res.val.kind = "ident"
      /\ ~has(state.trie, last.res.val.val)
      /\ ~IsDigit(CharAt(last.res.val.val, 0))
      /\ CharAt(last.res.val.val, 0) # "\""


(***************************************************************************)
(* Claims about the metavariable context (UnifySpec).                      *)
(***************************************************************************)
IsDefEqCall == last.op \in {"term", "rule"}

\* C17: when Term.isDefEq or Rule.isDefEq answers false, the MCtx it
\* returns is exactly the MCtx it was given, also when the comparison of
\* the function parts or of the premises had succeeded and assigned
\* metavariables before the later comparison failed.
C17_NoPartialEffects ==
    (IsDefEqCall /\ ~last.flag) => state = last.before

\* A failed call whose first sub-comparison had succeeded with an assignment.
C17_Witness ==
    /\ IsDefEqCall
    /\ ~last.flag
    /\ last.first.flag
    /\ last.first.mctx.assignment # last.before.assignment
    /\ state = last.before

\* C18: an assignment, once made, is never changed or removed by a later
\* isDefEq call or fresh metavariable.
C18_WriteOnce ==
    [][\A m \in DOMAIN state.assignment :
          /\ m \in DOMAIN state'.assignment
          /\ state'.assignment[m] = state.assignment[m]]_vars

\* A successful call that added an assignment to an MCtx that already had one.
C18_Witness ==
    /\ IsDefEqCall
    /\ last.flag
    /\ DOMAIN last.before.assignment # {}
    /\ DOMAIN state.assignment # DOMAIN last.before.assignment
    /\ \A m \in DOMAIN last.before.assignment :
          state.assignment[m] = last.before.assignment[m]

RECURSIVE MVarsOf(_)
MVarsOf(t) ==
    CASE t.kind = "mvar" -> {t.name}
      [] t.kind = "app" -> MVarsOf(t.fn) \cup MVarsOf(t.arg)
      [] t.kind = "lam" -> MVarsOf(t.body)
      [] OTHER -> {}

\* The metavariables met by following assignments from the set S, at most
\* n steps deep.
RECURSIVE Follow(_, _, _)
Follow(mctx, S, n) ==
    IF n = 0 THEN S
    ELSE Follow(mctx,
                S \cup UNION { MVarsOf(mctx.assignment[x]) :
                                 x \in S \cap DOMAIN mctx.assignment },
                n - 1)

ReachedFrom(mctx, m) ==
    Follow(mctx, MVarsOf(mctx.assignment[m]), Cardinality(DOMAIN mctx.types))

Acyclic(mctx) ==
    \A m \in DOMAIN mctx.assignment : m \notin ReachedFrom(mctx, m)

\* C19: no assigned metavariable is met by following assignments from its
\* own assignment, occursM agrees, and instM and whnf of every metavariable
\* end in a term with no assigned metavariable at its head or inside it.
C19_Acyclic ==
    /\ Acyclic(state)
    /\ \A m \in DOMAIN state.assignment :
          /\ ~occursM(state, state.assignment[m], m)
          /\ MVarsOf(TermInstM(state, MVar(m))) \cap DOMAIN state.assignment = {}
          /\ LET w == whnf(state, MVar(m))
             IN w.kind = "mvar" => w.name \notin DOMAIN state.assignment

\* A chain of two assignments: one metavariable is assigned a term that
\* holds a second metavariable, which is itself assigned.
C19_Witness ==
    /\ Acyclic(state)
    /\ \E m \in DOMAIN state.assignment :
          \E x \in MVarsOf(state.assignment[m]) \cap DOMAIN state.assignment :
             state.assignment[m].kind = "app"


(***************************************************************************)
(* Claims about the separator trie (TrieSpec).                             *)
(***************************************************************************)
\* word is a prefix of text[start..]
IsPrefixAt(word, text, start) ==
    /\ start + Len(word) <= Len(text)
    /\ SubSeq(text, start + 1, start + Len(word)) = word

PrefixLengths(words, text, start) ==
    { Len(w) : w \in { x \in words : IsPrefixAt(x, text, start) } }

\* C20: matchLongest(text, start) is the length of the longest inserted
\* word that is a prefix of text[start..], and 0 when no inserted word is.
C20_MatchLongest ==
    last.op = "matchLongest" =>
      /\ \A n \in PrefixLengths(state.words, last.text, last.start) : n <= last.res
      /\ last.res \in PrefixLengths(state.words, last.text, last.start) \cup {0}
      /\ (PrefixLengths(state.words, last.text, last.start) = {}) => last.res = 0

\* A match that went past the end of a word along the path of a longer
\* inserted word and fell back to the shorter one.
C20_Witness ==
    /\ last.op = "matchLongest"
    /\ last.res >= 1
    /\ \E w \in state.words :
          /\ Len(w) > last.res + 1
          /\ last.start + last.res + 1 <= Len(last.text)
          /\ SubSeq(w, 1, last.res + 1)
               = SubSeq(last.text, last.start + 1, last.start + last.res + 1)


\* The trie built from a set of words in one fixed order.
RECURSIVE TrieOf(_)
TrieOf(words) ==
    IF words = {} THEN EmptyMap
    ELSE LET w == CHOOSE x \in words : TRUE
         IN insert(TrieOf(words \ {w}), w)

\* C21: has(w) is true iff w is a non-empty inserted word, and the trie is
\* the same whatever the order of the insertions, however often a word was
\* inserted, and whether or not the empty word was inserted.
C21_HasIffInserted ==
    /\ last.op = "has" =>
         (last.res <=> (last.text \in state.words /\ last.text # ""))
    /\ state.trie = TrieOf(state.words)
    /\ state.trie = TrieOf(state.words \ {""})

\* has answered false on a proper prefix of an inserted word, in a trie
\* into which the empty word had been inserted as well.
C21_Witness ==
    /\ last.op = "has"
    /\ last.res = FALSE
    /\ last.text # ""
    /\ "" \in state.words
    /\ \E w \in state.words : Len(w) > Len(last.text) /\ IsPrefixAt(last.text, w, 0)


(***************************************************************************)
(* Claims about the commands (DriverSpec, NotationSpec).                   *)
(***************************************************************************)
\* The command is `axiom n : P` with P a single identifier.
AxiomOfIdent(stx) ==
    /\ IsCommand(stx, "axiom")
    /\ Len(stx.args) = 4
    /\ Arg(stx, 1).kind = "ident"
    /\ IsNode(Arg(stx, 3), "rule") /\ Len(Arg(stx, 3).args) = 1
    /\ IsNode(Arg(Arg(stx, 3), 0), "term") /\ Len(Arg(Arg(stx, 3), 0).args) = 1
    /\ Arg(Arg(Arg(stx, 3), 0), 0).kind = "ident"

IdentOf(stx) == Arg(Arg(Arg(stx, 3), 0), 0).val

\* C22: when the command is `axiom n : P`, n is not an axiom, and the
\* identifier P is neither a separator nor a constant, the driver returns
\* "unknown const: 'P'" and the axioms are the ones before.
C22_UnknownConst ==
    [][ ( /\ pc = "loop"
          /\ AxiomOfIdent(cmd')
          /\ ~MapHas(state.axioms, Arg(cmd', 1).val)
          /\ ~MapHas(state.constants, IdentOf(cmd'))
          /\ ~has(state.trie, IdentOf(cmd')) )
        => ( /\ pc' = "returned"
             /\ out' = "unknown const: " \o BQ \o IdentOf(cmd') \o BQ
             /\ state'.axioms = state.axioms ) ]_vars

\* The driver returned on `axiom ax1 : p` after an earlier command had
\* succeeded, p being no constant.
C22_Witness ==
    /\ pc = "returned"
    /\ AxiomOfIdent(cmd)
    /\ IdentOf(cmd) = "p"
    /\ ~MapHas(state.constants, "p")
    /\ MapHas(state.constants, "Prop")
    /\ out = "unknown const: " \o BQ \o "p" \o BQ


SortedByPrec(list) ==
    \A i \in 1..Len(list) : \A j \in 1..Len(list) :
       i < j => list[i].prec >= list[j].prec

\* list without its k-th element
Without(list, k) == SubSeq(list, 1, k - 1) \o SubSeq(list, k + 1, Len(list))

\* new is old with one rule put behind every rule of greater or equal prec
\* and before every rule of smaller prec.
InsertedBehindEquals(old, new) ==
    \E k \in 1..Len(new) :
       /\ Without(new, k) = old
       /\ \A i \in 1..Len(new) : i < k => new[i].prec >= new[k].prec
       /\ \A i \in 1..Len(new) : i > k => new[i].prec < new[k].prec

\* C23: the term parser list is sorted by non-increasing prec before and
\* after every command; a command leaves it alone or puts one new rule
\* behind the rules of greater or equal prec, the old rules keeping their
\* order; every other nonterminal keeps the default list.
C23_TermParsersSorted ==
    [][ /\ SortedByPrec(state.parsers["term"])
        /\ SortedByPrec(state'.parsers["term"])
        /\ \/ state'.parsers["term"] = state.parsers["term"]
           \/ InsertedBehindEquals(state.parsers["term"], state'.parsers["term"])
        /\ DOMAIN state'.parsers = DOMAIN defaultCoreState.parsers
        /\ \A nt \in DOMAIN state'.parsers \ {"term"} :
              state'.parsers[nt] = defaultCoreState.parsers[nt] ]_vars

RuleOfLiteral(list, i, lit) ==
    /\ i \in 1..Len(list)
    /\ Len(list[i].descr) >= 2
    /\ list[i].descr[2] = [kind |-> "symbol", val |-> lit]

\* The rule of "-" (prec 40), installed after that of "*" (prec 40), stands
\* right behind it, between the rules of prec 1024 and application.
C23_Witness ==
    /\ Len(state.notations) = 3
    /\ state.notations[1].name = "plus"
    /\ state.notations[2].name = "times"
    /\ state.notations[3].name = "minus"
    /\ \E i \in 1..Len(state.parsers["term"]) :
          /\ RuleOfLiteral(state.parsers["term"], i, "*")
          /\ RuleOfLiteral(state.parsers["term"], i + 1, "-")
          /\ state.parsers["term"][i - 1].prec = 1024
          /\ state.parsers["term"][i + 2].prec = 0


(***************************************************************************)
(* Claims about the tactics (TacSpec).                                     *)
(***************************************************************************)
\* A term and a rule with every free fvar replaced by the position, counted
\* from the oldest entry, of the fctx entry it denotes when n entries are in
\* scope; that position does not change when fctx grows at the head.
RECURSIVE TermLevels(_, _)
TermLevels(t, n) ==
    CASE t.kind = "fvar" -> [kind |-> "level", lvl |-> n - 1 - t.idx]
      [] t.kind = "app" -> App(TermLevels(t.fn, n), TermLevels(t.arg, n))
      [] t.kind = "lam" -> Lam(t.name, t.ty, TermLevels(t.body, n))
      [] OTHER -> t

RECURSIVE RuleLevels(_, _)
RuleLevels(r, n) ==
    CASE r.kind = "proves" -> Proves(TermLevels(r.p, n))
      [] r.kind = "implies" -> Implies(RuleLevels(r.P, n), RuleLevels(r.Q, n))
      [] r.kind = "all" -> All(r.name, r.s, RuleLevels(r.P, n + 1))

\* The proof that intro x, intro h, intro y, assum builds.
IsIntroIntroIntroHyp(p) ==
    /\ p.kind = "allI"
    /\ p.h.kind = "impI"
    /\ p.h.hq.kind = "allI"
    /\ p.h.hq.h.kind = "hyp"

\* C24: intro on all(_, s, P) leaves every inherited hypothesis denoting
\* the same fctx entries as before, and !! x : T, P x => !! y : T, P y is
\* never closed by intro x, intro h, intro y, assum.
C24_IntroKeepsHypMeaning ==
    [][ /\ IntroStep("all") =>
             \A j \in 1..Len(ts.goals[1].ctx) :
                RuleLevels(ts'.goals[1].ctx[j][2], Len(ts'.goals[1].fctx))
                  = RuleLevels(RuleInstM(ts.mctx, ts.goals[1].ctx[j][2]),
                               Len(ts.goals[1].fctx))
        /\ (pc' = "tactics" /\ cmd'.r = tXY /\ Len(ts'.goals) = 0) =>
             ~IsIntroIntroIntroHyp(instHole(cmd'.root, ts'.proofs)) ]_vars


(***************************************************************************)
(* Claims about Rule.substF (RuleSubstSpec).                               *)
(***************************************************************************)
\* The substitution for the variable of free index 0 of a rule, d binders
\* deep: that variable has index d, and u's free indices are raised by d.
RECURSIVE TermSubstAt(_, _, _)
TermSubstAt(t, u, d) ==
    CASE t.kind = "fvar" ->
           IF t.idx = d THEN FlatLiftF(u, d, 0)
           ELSE IF t.idx > d THEN FVar(t.idx - 1)
           ELSE t
      [] t.kind = "app" -> App(TermSubstAt(t.fn, u, d), TermSubstAt(t.arg, u, d))
      [] t.kind = "lam" -> Lam(t.name, t.ty, TermSubstAt(t.body, u, d))
      [] OTHER -> t

RECURSIVE RuleSubstAt(_, _, _)
RuleSubstAt(r, u, d) ==
    CASE r.kind = "proves" -> Proves(TermSubstAt(r.p, u, d))
      [] r.kind = "implies" -> Implies(RuleSubstAt(r.P, u, d), RuleSubstAt(r.Q, u, d))
      [] r.kind = "all" -> All(r.name, r.s, RuleSubstAt(r.P, u, d + 1))

\* C25: Rule.substF(r, u, 0) puts u, its free indices raised by the number
\* d of enclosing `all` binders, at every occurrence of the variable of
\* free index 0 of r, and lowers every other free fvar by one.
C25_RuleSubstF ==
    pc = "done" => last.res = RuleSubstAt(state.r, state.u, 0)


\* A successful apply.
ApplyStep ==
    /\ pc = "tactics" /\ pc' = "tactics"
    /\ last'.tac = "apply"
    /\ cmd'.n = cmd.n + 1

\* The rule that the proof apply builds from a hypothesis or an axiom proves
\* in the goal g.
RECURSIVE ProvedBy(_, _, _)
ProvedBy(p, g, axioms) ==
    CASE p.kind = "hyp" -> g.ctx[p.idx + 1][2]
      [] p.kind = "ax" -> axioms[p.name]
      [] p.kind = "impE" -> ProvedBy(p.hpq, g, axioms).Q
      [] p.kind = "allE" -> RuleSubstF(ProvedBy(p.h, g, axioms).P, p.t, 0)

\* Every allE(h, t) of the proof has t of the type that the rule of h binds.
RECURSIVE AllETyped(_, _, _, _, _)
AllETyped(p, g, mctx, cctx, axioms) ==
    CASE p.kind = "allE" ->
           /\ AllETyped(p.h, g, mctx, cctx, axioms)
           /\ ProvedBy(p.h, g, axioms).kind = "all"
           /\ inferType(mctx, cctx, g.fctx, <<>>, p.t) = ProvedBy(p.h, g, axioms).s
      [] p.kind = "impE" -> AllETyped(p.hpq, g, mctx, cctx, axioms)
      [] OTHER -> TRUE

ApplyCoreStep == ApplyStep /\ last'.args = <<>>

NamedProof(g, name) ==
    IF findIndex(g.ctx, name) # -1 THEN Hyp(findIndex(g.ctx, name)) ELSE Ax(name)

\* The proof applyCore built, read from the outside in: the proof it
\* started from, the hp of every impE and the premise each one discharges
\* (innermost first), and the proofs it passed through on the way.
RECURSIVE SpineBase(_)
SpineBase(p) ==
    CASE p.kind = "impE" -> SpineBase(p.hpq)
      [] p.kind = "allE" -> SpineBase(p.h)
      [] OTHER -> p

RECURSIVE SpineHoles(_)
SpineHoles(p) ==
    CASE p.kind = "impE" -> Append(SpineHoles(p.hpq), p.hp)
      [] p.kind = "allE" -> SpineHoles(p.h)
      [] OTHER -> <<>>

RECURSIVE SpinePremises(_, _, _)
SpinePremises(p, g, axioms) ==
    CASE p.kind = "impE" ->
           Append(SpinePremises(p.hpq, g, axioms), ProvedBy(p.hpq, g, axioms).P)
      [] p.kind = "allE" -> SpinePremises(p.h, g, axioms)
      [] OTHER -> <<>>

RECURSIVE SpineBefore(_)
SpineBefore(p) ==
    CASE p.kind = "impE" -> {p.hpq} \cup SpineBefore(p.hpq)
      [] p.kind = "allE" -> {p.h} \cup SpineBefore(p.h)
      [] OTHER -> {}

InstGoal(mctx, g) ==
    [g EXCEPT !.target = RuleInstM(mctx, g.target), !.ctx = InstCtx(mctx, g.ctx)]

\* What applyCore does to the proof and to the new goals, and when it fails.
ApplyCoreEffect ==
    /\ ApplyCoreStep =>
         LET g == ts.goals[1]
             p == ts'.proofs[g.holeId]
             holes == SpineHoles(p)
             premises == SpinePremises(p, g, ts.axioms)
         IN /\ SpineBase(p) = NamedProof(g, last'.name)
            /\ RuleIsDefEq(ts'.mctx, ProvedBy(p, g, ts.axioms), g.target)[2]
            /\ \A q \in SpineBefore(p) :
                  ~RuleIsDefEq([ts'.mctx EXCEPT !.assignment = ts.mctx.assignment],
                               ProvedBy(q, g, ts.axioms), g.target)[2]
            /\ Len(ts'.goals) = Len(holes) + Len(ts.goals) - 1
            /\ \A i \in 1..Len(holes) :
                  /\ holes[i].kind = "hole"
                  /\ ts'.goals[i] = [holeId |-> holes[i].name,
                                     target |-> RuleInstM(ts'.mctx, premises[i]),
                                     ctx |-> InstCtx(ts'.mctx, g.ctx),
                                     fctx |-> g.fctx]
    /\ ( /\ pc = "tactics" /\ pc' = "failed"
         /\ last'.tac = "apply" /\ last'.args = <<>>
         /\ Len(ts.goals) > 0
         /\ \/ findIndex(ts.goals[1].ctx, last'.name) # -1
            \/ MapHas(ts.axioms, last'.name) )
       => /\ ts' = ts
          /\ LET tail == " is not definitionally equal to "
                           \o RuleToString(ts.goals[1].target, ts.goals[1].fctx, 0)
             IN /\ Len(out') > Len(tail)
                /\ SubSeq(out', Len(out') - Len(tail) + 1, Len(out')) = tail

\* C27 as stated: the effect of applyCore, the remaining goals being
\* exactly the goals behind the head goal as they were.
C27_ApplyCoreTailUntouched ==
    [][ /\ ApplyCoreEffect
        /\ ApplyCoreStep =>
             \A i \in 1..(Len(ts.goals) - 1) :
                ts'.goals[Len(ts'.goals) - Len(ts.goals) + 1 + i] = ts.goals[1 + i] ]_vars

\* C27, amended: the effect of applyCore, the remaining goals being the
\* goals behind the head goal, in their order, each instantiated by
\* Rule.instM under the resulting mctx as the new goals are.
C27_ApplyCoreTailInstantiated ==
    [][ /\ ApplyCoreEffect
        /\ ApplyCoreStep =>
             \A i \in 1..(Len(ts.goals) - 1) :
                ts'.goals[Len(ts'.goals) - Len(ts.goals) + 1 + i]
                  = InstGoal(ts'.mctx, ts.goals[1 + i]) ]_vars

\* apply of a two-premise axiom under a quantifier has just put two new
\* goals, for P ?m and P ?m, in front of nothing, by way of a fresh
\* metavariable and two holes.
C27_Witness ==
    /\ pc = "tactics"
    /\ last.tac = "apply" /\ last.name = "ax3" /\ last.args = <<>>
    /\ Len(ts.goals) = 2
    /\ ts.goals[1].target = ts.goals[2].target
    /\ ts.goals[1].target.p.arg.kind = "mvar"
    /\ ts.goals[1].holeId # ts.goals[2].holeId
    /\ Len(ts.goals[1].ctx) = 1


\* C28: while the tactic script runs, the target and every hypothesis of
\* every open goal equal their own Rule.instM under the current mctx: none
\* contains an assigned metavariable.
C28_GoalsInstantiated ==
    pc = "tactics" =>
      \A i \in 1..Len(ts.goals) : InstGoal(ts.mctx, ts.goals[i]) = ts.goals[i]

\* apply has just closed a goal by assigning a metavariable that the
\* remaining goal mentioned; the remaining goal shows its value.
C28_Witness ==
    /\ pc = "tactics"
    /\ last.tac \in {"apply", "assum"}
    /\ DOMAIN ts.mctx.assignment # {}
    /\ Len(ts.goals) = 1
    /\ ts.goals[1].target = tP(Const("c"))
    /\ \E m \in DOMAIN ts.mctx.assignment : ts.mctx.assignment[m] = Const("c")


\* The holes minted so far in the proof: the open goals and the holes that
\* were assigned a proof.
MintedHoles(t) == { t.goals[i].holeId : i \in 1..Len(t.goals) } \cup DOMAIN t.proofs

\* C29: the counter never decreases; mkHole and mkFreshMVar name what they
\* mint after the current counter and return the counter plus one, and
\* mkHole leaves goals alone; every number below the counter names exactly
\* one hole or one metavariable, no name is used twice, and no open goal's
\* hole has a proof already.
C29_FreshNames ==
    [][ (pc' = "tactics") =>
          /\ (pc = "tactics" => ts'.mctx.counter >= ts.mctx.counter)
          /\ mkHole(ts', tp, <<>>, <<>>)[1].mctx.counter = ts'.mctx.counter + 1
          /\ mkHole(ts', tp, <<>>, <<>>)[1].goals = ts'.goals
          /\ mkHole(ts', tp, <<>>, <<>>)[2] = Hole("_hole_" \o ToString(ts'.mctx.counter))
          /\ mkHole(ts', tp, <<>>, <<>>)[3].holeId \notin MintedHoles(ts')
          /\ mkFreshMVar(ts'.mctx, tyT)[1].counter = ts'.mctx.counter + 1
          /\ mkFreshMVar(ts'.mctx, tyT)[2] = MVar("_m" \o ToString(ts'.mctx.counter))
          /\ mkFreshMVar(ts'.mctx, tyT)[2].name \notin DOMAIN ts'.mctx.types
          /\ \A k \in 0..(ts'.mctx.counter - 1) :
                ("_hole_" \o ToString(k) \in MintedHoles(ts'))
                  # ("_m" \o ToString(k) \in DOMAIN ts'.mctx.types)
          /\ Cardinality(MintedHoles(ts')) + Cardinality(DOMAIN ts'.mctx.types)
               = ts'.mctx.counter
          /\ \A i \in 1..Len(ts'.goals) : \A j \in 1..Len(ts'.goals) :
                i # j => ts'.goals[i].holeId # ts'.goals[j].holeId
          /\ \A i \in 1..Len(ts'.goals) : ts'.goals[i].holeId \notin DOMAIN ts'.proofs ]_vars

\* One apply has minted a metavariable and two holes after the first hole
\* and the hole of an intro.
C29_Witness ==
    /\ pc = "tactics"
    /\ ts.mctx.counter = 5
    /\ DOMAIN ts.mctx.types = {"_m2"}
    /\ MintedHoles(ts) = {"_hole_0", "_hole_1", "_hole_3", "_hole_4"}


(***************************************************************************)
(* Claims about termination (LiveSpec).                                    *)
(***************************************************************************)
\* The tokens of a syntax tree.
RECURSIVE Leaves(_)
RECURSIVE LeavesFrom(_, _)
Leaves(stx) == IF stx.kind = "node" THEN LeavesFrom(stx.args, 1) ELSE 1
LeavesFrom(args, i) ==
    IF i > Len(args) THEN 0 ELSE Leaves(args[i]) + LeavesFrom(args, i + 1)

\* The tokens of the stream in front of position index.
RECURSIVE TokensBefore(_, _, _)
TokensBefore(stream, trie, index) ==
    IF stream.index >= index \/ peek(stream, trie) = Undefined THEN 0
    ELSE 1 + TokensBefore(next(stream, trie), trie, index)

\* Every item of a many/many1 node holds a token, and so does what every
\* iteration of the infix loop put behind the left operand.
RECURSIVE Consuming(_)
Consuming(stx) ==
    stx.kind = "node" =>
      /\ \A i \in 1..Len(stx.args) : Consuming(stx.args[i])
      /\ stx.type = "many" => \A i \in 1..Len(stx.args) : Leaves(stx.args[i]) >= 1
      /\ (Len(stx.args) >= 1 /\ IsNode(stx.args[1], stx.type)) =>
            LeavesFrom(stx.args, 2) >= 1

\* C30: the driver returns on every script; a command that parses leaves
\* the stream at a greater index, its tree holds exactly the tokens in
\* between, and every many/many1 item and every infix iteration in it
\* consumed a token.
C30_DriverTerminates ==
    /\ <>(pc = "returned")
    /\ [][ (pc = "loop" /\ cmd' # Null) =>
             /\ st'.index > st.index
             /\ Leaves(cmd') = TokensBefore(st, state.trie, st'.index)
             /\ Leaves(cmd') >= 1
             /\ Consuming(cmd') ]_vars

\* The driver returned "all good" after a proof with a many of three
\* tactics, one of them with a many1 of two names, on a rule with two
\* iterations of the infix loop.
C30_Witness ==
    /\ pc = "returned" /\ out = "all good"
    /\ MapHas(state.axioms, "t2") /\ MapHas(state.axioms, "ax2")
    /\ st.index = Len(st.text)

====
